---- MODULE Spec2Model ----
(***************************************************************************)
(* Streaming chat-completion engine of neowu/puppet.                       *)
(*                                                                         *)
(* The repository holds several revisions of the same engine.  The model   *)
(* keeps them apart by the variable `variant`:                             *)
(*   AgentGenerate  lib/agent/src/openai/chat.rs   Chat::generate          *)
(*   AgentStream    lib/agent/src/openai/chat.rs   Chat::generate_stream   *)
(*   LibGenerate    lib/openai/src/chat.rs         Chat::generate          *)
(*   LibStream      lib/openai/src/chat.rs         Chat::generate_stream   *)
(*   Azure          src/azure/chatgpt.rs           ChatGPT::chat/process   *)
(*   OpenAI         src/openai/chatgpt.rs          ChatGPT::chat           *)
(*   ChatGPT        src/chatgpt.rs                 ChatGPT::chat           *)
(*                                                                         *)
(* Spec    is the turn loop (request, response, dispatch, log).            *)
(* SpecSse is one streamed turn, frame by frame (reader, channel,          *)
(*         listener).                                                      *)
(***************************************************************************)
EXTENDS Integers, Sequences, FiniteSets, TLC

VARIABLES
    variant,          \* which revision of the engine this session runs
    implementations,  \* names with a registered implementation
    messages,         \* Conversation State: the message log
    tools,            \* tool definitions sent with a request (Option)
    usage,            \* usage reported by the session
    pc,               \* position of the turn loop
    requests,         \* requests issued by the current call
    response,         \* the response being processed (Option)
    functions,        \* calls handed to the dispatcher (Azure, OpenAI, ChatGPT)
    result,           \* how the call ended, as the caller sees it
    failure,          \* history: the first error that occurred in the call
    before,           \* history: the log and tools the current request was built from
    turns,            \* history: the responses of the turns the call completed
    start,            \* history: the log when the call started
    pending,          \* ChatGPT: the message the next request adds to the log
    users,            \* number of add_user_message calls made
    body,             \* SSE: the frames the provider sends for this turn
    pos,              \* SSE: how much of the body the reader has taken
    buffer,           \* SSE: Azure's text buffer
    choice,           \* SSE: the response the reader is accumulating
    outbox,           \* SSE: items the reader is waiting to send
    channel,          \* SSE: the bounded channel to the listener
    received,         \* SSE: the items the listener has received
    ssePc,            \* SSE: position of the reader
    doneRead,         \* SSE history: pos when [DONE] was read (Option)
    wasFull,          \* SSE history: the channel has been full
    poisoned,         \* the session Mutex is poisoned: a holder panicked
    generates,        \* number of generate() calls made on the session
    systems,          \* number of system_message calls made
    loops,            \* concurrent turn loops: position and request of each
    foreign,          \* history: the log was written by someone else during a loop
    files,            \* attachments of the add_user_message call under way
    attached,         \* how that add_user_message call ended
    line,             \* the header line handed to parse_option
    pieces,           \* history: the pieces the line was put together from
    option,           \* what parse_option returned (Option of its result)
    lock,             \* steps: who holds the session Mutex
    plan,             \* steps: the statements of the turn under way
    step,             \* steps: the statement of the plan that runs next
    tasks,            \* steps: the state of each tool implementation of the turn
    finished,         \* steps: the calls in the order their implementations returned
    trace,            \* steps history: what happened, in order
    session_functions \* Session.functions of lib/agent: the enabled names (Option)

engineVars == <<variant, implementations, messages, tools, usage, pc, requests,
                response, functions, result, failure, before, turns, start,
                pending, users>>

sseVars == <<body, pos, buffer, choice, outbox, channel, received, ssePc,
             doneRead, wasFull>>

sessionVars == <<poisoned, generates, systems>>

concVars == <<loops, foreign>>

fileVars == <<files, attached>>

parseVars == <<line, pieces, option>>

stepVars == <<lock, plan, step, tasks, finished, trace>>

toolVars == <<session_functions>>

pureVars == <<parseVars, stepVars, toolVars>>

extVars == <<sessionVars, concVars, fileVars, pureVars>>

vars == <<engineVars, sseVars, extVars>>

----------------------------------------------------------------------------
(* Bounds *)

MaxRequests == 2
MaxCalls == 2
MaxUsers == 1
MaxFrames == 3
LongFrames == 66
MaxChunk == 6
MaxLoops == 2
MaxGenerates == 1
MaxSystems == 2
MaxFiles == 2
MaxPieces == 3
MaxFragments == 5
MaxVertexFrames == 2
MaxRead == 3
MaxSegments == 3

\* mpsc::channel(64)
ChannelCapacity == 64

----------------------------------------------------------------------------
(* Option and Result *)

None == <<>>
Some(x) == <<x>>
IsSome(o) == o # <<>>
Unwrap(o) == o[1]

Ok(v) == [ok |-> TRUE, value |-> v, error |-> "none"]
Err(e) == [ok |-> FALSE, value |-> None, error |-> e]

----------------------------------------------------------------------------
(* Input sets *)

Variants == {"AgentGenerate", "AgentStream", "LibGenerate", "LibStream",
             "Azure", "OpenAI", "ChatGPT"}
Streaming == {"AgentStream", "LibStream"}

RegisteredName == "get_random_number"
Names == {RegisteredName, "unknown"}
Ids == {"call_1", "call_2"}
ValidArguments == "{\"max\":5}"
InvalidArguments == "{\"ma"
PanicArguments == "{\"max\":0}"
NotFound == "function not found"
Panicked == "implementation panicked"
UserTexts == {"What is 2+2?"}
SystemTexts == {"Be brief.", "Be kind."}
Texts == {"", "4", "Here: 7"}
Usages == {[prompt_tokens |-> 10, completion_tokens |-> 5],
           [prompt_tokens |-> 8, completion_tokens |-> 20]}
NoUsage == [prompt_tokens |-> 0, completion_tokens |-> 0]

\* json::from_json on an argument string: only a complete document parses
from_json(s) == IF s \in {ValidArguments, PanicArguments} THEN Ok(s) ELSE Err("decode")

ToolCalls ==
    {[id |-> i, name |-> n, arguments |-> ValidArguments] : i \in Ids, n \in Names}
    \cup {[id |-> "call_1", name |-> RegisteredName, arguments |-> InvalidArguments],
          [id |-> "call_2", name |-> RegisteredName, arguments |-> PanicArguments]}

RECURSIVE SeqsUpTo(_, _)
SeqsUpTo(S, n) ==
    IF n = 0 THEN {<<>>}
    ELSE LET shorter == SeqsUpTo(S, n - 1)
         IN  shorter \cup {Append(s, x) : s \in {t \in shorter : Len(t) = n - 1}, x \in S}

CallBatches == SeqsUpTo(ToolCalls, MaxCalls) \ {<<>>}

StatusCodes == {429, 500}
ResponseText == "{\"error\":\"busy\"}"

\* what one request can come back with: a fault, or a response carrying
\* text, tool calls and usage; the fault "send" is any transport failure,
\* the failure to read the body of an answer included
Faults == {"send", "status", "decode"}

\* a turn in which the model wrote a text and then asked for a tool
MixedText == "Let me check."
MixedResponse ==
    [fault |-> "none", status |-> 200, content |-> Some(MixedText),
     tool_calls |-> Some(<<[id |-> "call_1", name |-> RegisteredName,
                            arguments |-> ValidArguments]>>),
     usage |-> [prompt_tokens |-> 10, completion_tokens |-> 5]]
Responses ==
    {[fault |-> "none", status |-> 200, content |-> c, tool_calls |-> None, usage |-> u] :
        c \in {None} \cup {Some(t) : t \in Texts}, u \in Usages}
    \cup {[fault |-> "none", status |-> 200, content |-> None, tool_calls |-> Some(b),
           usage |-> u] : b \in CallBatches, u \in Usages}
    \cup {[fault |-> f, status |-> IF f = "send" THEN 0 ELSE 200, content |-> None,
           tool_calls |-> None, usage |-> NoUsage] : f \in {"send", "decode"}}
    \cup {[fault |-> "status", status |-> c, content |-> None, tool_calls |-> None,
           usage |-> NoUsage] : c \in StatusCodes}
    \cup {[fault |-> "decode", status |-> 200, content |-> Some("4"), tool_calls |-> None,
           usage |-> NoUsage]}
    \cup {MixedResponse}

----------------------------------------------------------------------------
(* Messages *)

new_message(role, message) ==
    [role |-> role, content |-> Some(message), name |-> None,
     tool_call_id |-> None, tool_calls |-> None]

\* mutant: the result is filed under the value instead of the call id
new_function_response_wrong_id(id, value) ==
    [role |-> "Tool", content |-> Some(value), name |-> None,
     tool_call_id |-> Some(value), tool_calls |-> None]

new_function_response(id, value) ==
    [role |-> "Tool", content |-> Some(value), name |-> None,
     tool_call_id |-> Some(id), tool_calls |-> None]

new_function_call(calls) ==
    [role |-> "Assistant", content |-> None, name |-> None,
     tool_call_id |-> None, tool_calls |-> Some(calls)]

\* src/openai/api.rs: the result message of the single-function revision
new_function(name, value) ==
    [role |-> "Function", content |-> Some(value), name |-> Some(name),
     tool_call_id |-> None, tool_calls |-> None]

----------------------------------------------------------------------------
(* Tool dispatcher *)

\* a registered implementation applied to its arguments, then json::to_json
Implementation(name, arguments) == "7"

\* get_random_number: rng.gen_range(0..max) panics on the empty range
ImplementationPanics(name, arguments) == arguments = PanicArguments

FunctionPayload(call) == [id |-> call.id, name |-> call.name, value |-> call.arguments]

Orders(n) == {p \in [1..n -> 1..n] : \A i, j \in 1..n : p[i] = p[j] => i = j}

Permute(s, p) == [i \in 1..Len(s) |-> s[p[i]]]

Results(payloads) ==
    [i \in 1..Len(payloads) |->
        [id |-> payloads[i].id, name |-> payloads[i].name,
         value |-> Implementation(payloads[i].name, payloads[i].value)]]

\* mutant: the results of the calls that returned are handed back
call_functions_partial(store, payloads, completed) ==
    IF \E i \in 1..Len(payloads) : payloads[i].name \notin store
    THEN Err(NotFound)
    ELSE LET returned == SelectSeq(Permute(payloads, completed),
                                   LAMBDA p : ~ImplementationPanics(p.name, p.value))
         IN  Ok(Results(returned))

\* FunctionImplementations::call_functions (src/llm/function.rs): get() of
\* every name, then every call is spawned on a JoinSet; join_next hands the
\* results back as the tasks complete, a task that panicked as a JoinError;
\* completed[k] is the call that completes k-th
call_functions(store, payloads, completed) ==
    IF \E i \in 1..Len(payloads) : payloads[i].name \notin store
    THEN Err(NotFound)
    ELSE IF \E i \in 1..Len(payloads) : ImplementationPanics(payloads[i].name, payloads[i].value)
    THEN Err(Panicked)
    ELSE Ok(Results(Permute(payloads, completed)))

\* mutant: a call of an unknown name is skipped
call_skip_unknown(store, payloads) ==
    LET known == SelectSeq(payloads, LAMBDA p : p.name \in store)
    IN  IF \E i \in 1..Len(known) : ImplementationPanics(known[i].name, known[i].value)
        THEN Err(Panicked)
        ELSE Ok(Results(known))

\* FunctionStore::call: a sequential loop that ends at the first call whose
\* name is unknown (Err) or whose implementation panics (unwinds)
call(store, payloads) ==
    LET bad == {i \in 1..Len(payloads) :
                   \/ payloads[i].name \notin store
                   \/ ImplementationPanics(payloads[i].name, payloads[i].value)}
        first == CHOOSE i \in bad : \A j \in bad : i <= j
    IN  IF bad = {} THEN Ok(Results(payloads))
        ELSE IF payloads[first].name \notin store THEN Err(NotFound)
        ELSE Err(Panicked)

----------------------------------------------------------------------------
(* process_chat_response of lib/agent and lib/openai *)

\* mutant: the last result is not appended
FunctionResponses_drop_last(results) ==
    [i \in 1..(Len(results) - 1) |-> new_function_response(results[i].id, results[i].value)]

FunctionResponses(results) ==
    [i \in 1..Len(results) |-> new_function_response(results[i].id, results[i].value)]

\* mutant: a text turn appends its message and lets the loop go on
process_chat_response_no_return(resp, log, store) ==
    IF IsSome(resp.tool_calls)
    THEN LET calls == Unwrap(resp.tool_calls)
             payloads == [i \in 1..Len(calls) |-> FunctionPayload(calls[i])]
         IN  IF \E i \in 1..Len(calls) : ~from_json(calls[i].arguments).ok
             THEN [log |-> log, ret |-> Err("arguments"), panic |-> FALSE]
             ELSE LET recorded == Append(log, new_function_call(calls))
                      results == call(store, payloads)
                  IN  IF ~results.ok
                      THEN [log |-> recorded, ret |-> Err(results.error),
                            panic |-> results.error = Panicked]
                      ELSE [log |-> recorded \o FunctionResponses(results.value),
                            ret |-> Ok(None), panic |-> FALSE]
    ELSE IF ~IsSome(resp.content)
         THEN [log |-> log, ret |-> Err("empty"), panic |-> TRUE]
         ELSE [log |-> Append(log, new_message("Assistant", Unwrap(resp.content))),
               ret |-> Ok(None), panic |-> FALSE]

\* the log after the call and what the call returns:
\* Ok(Some(content)), Ok(None), Err(e), or a panic
process_chat_response(resp, log, store) ==
    IF IsSome(resp.tool_calls)
    THEN LET calls == Unwrap(resp.tool_calls)
             payloads == [i \in 1..Len(calls) |-> FunctionPayload(calls[i])]
         IN  IF \E i \in 1..Len(calls) : ~from_json(calls[i].arguments).ok
             THEN [log |-> log, ret |-> Err("arguments"), panic |-> FALSE]
             ELSE LET recorded == Append(log, new_function_call(calls))
                      results == call(store, payloads)
                  IN  IF ~results.ok
                      THEN [log |-> recorded, ret |-> Err(results.error),
                            panic |-> results.error = Panicked]
                      ELSE [log |-> recorded \o FunctionResponses(results.value),
                            ret |-> Ok(None), panic |-> FALSE]
    ELSE IF ~IsSome(resp.content)
         THEN [log |-> log, ret |-> Err("empty"), panic |-> TRUE]
         ELSE [log |-> Append(log, new_message("Assistant", Unwrap(resp.content))),
               ret |-> Ok(Some(Unwrap(resp.content))), panic |-> FALSE]

----------------------------------------------------------------------------
(* Session operations of the caller *)

NoResult == [kind |-> "None", value |-> None]

InitLocal ==
    /\ line = ""
    /\ pieces = <<>>
    /\ option = None
    /\ lock = "none"
    /\ plan = <<>>
    /\ step = 0
    /\ tasks = <<>>
    /\ finished = <<>>
    /\ trace = <<>>

InitPure ==
    /\ InitLocal
    /\ session_functions = None

\* the parts of the state that a specification does not exercise
InitExt ==
    /\ poisoned = FALSE
    /\ generates = 0
    /\ systems = 0
    /\ loops = <<>>
    /\ foreign = FALSE
    /\ files = <<>>
    /\ attached = Err("none")
    /\ InitPure

Init ==
    /\ variant \in Variants
    /\ implementations \in {{}, {RegisteredName}}
    /\ messages = <<>>
    /\ tools = IF implementations = {} THEN None ELSE Some(<<RegisteredName>>)
    /\ usage = NoUsage
    /\ pc = "idle"
    /\ requests = 0
    /\ response = None
    /\ functions = <<>>
    /\ result = NoResult
    /\ failure = "none"
    /\ before = [messages |-> <<>>, tools |-> None]
    /\ turns = <<>>
    /\ start = <<>>
    /\ pending = None
    /\ users = 0
    /\ body = <<>>
    /\ pos = 0
    /\ buffer = <<>>
    /\ choice = None
    /\ outbox = <<>>
    /\ channel = <<>>
    /\ received = <<>>
    /\ ssePc = "none"
    /\ doneRead = None
    /\ wasFull = FALSE
    /\ InitExt

\* Session::add_message(UserMessage) / Chat::add_user_message without files
AddUserMessage ==
    /\ pc = "idle"
    /\ variant \notin {"OpenAI", "ChatGPT"}
    /\ users < MaxUsers
    /\ \E text \in UserTexts : messages' = Append(messages, new_message("User", text))
    /\ users' = users + 1
    /\ UNCHANGED <<variant, implementations, tools, usage, pc, requests, response,
                   functions, result, failure, before, turns, start, pending>>
    /\ UNCHANGED sseVars
    /\ UNCHANGED extVars

\* Chat::generate / Chat::generate_stream / azure ChatGPT::chat: enter the loop
Generate ==
    /\ pc = "idle"
    /\ variant \notin {"OpenAI", "ChatGPT"}
    /\ pc' = "call_api"
    /\ start' = messages
    /\ UNCHANGED <<variant, implementations, messages, tools, usage, requests,
                   response, functions, result, failure, before, turns, pending, users>>
    /\ UNCHANGED sseVars
    /\ UNCHANGED extVars

\* ChatGPT::chat(message) of src/openai/chatgpt.rs and src/chatgpt.rs: the
\* first pushes the User message itself, the second hands it to call_api
Chat ==
    /\ pc = "idle"
    /\ variant \in {"OpenAI", "ChatGPT"}
    /\ users < MaxUsers
    /\ \E text \in UserTexts :
          IF variant = "OpenAI"
          THEN /\ messages' = Append(messages, new_message("User", text))
               /\ pending' = pending
               /\ start' = Append(messages, new_message("User", text))
          ELSE /\ messages' = messages
               /\ pending' = Some(new_message("User", text))
               /\ start' = messages
    /\ users' = users + 1
    /\ pc' = "call_api"
    /\ UNCHANGED <<variant, implementations, tools, usage, requests, response,
                   functions, result, failure, before, turns>>
    /\ UNCHANGED sseVars
    /\ UNCHANGED extVars

----------------------------------------------------------------------------
(* The turn loop *)

Finish(kind, value) ==
    /\ pc' = "done"
    /\ result' = [kind |-> kind, value |-> value]

\* how an Err that reaches the top of the loop leaves the call
Abort(error) ==
    IF variant = "AgentStream"
    THEN Finish("StreamErr", Some(error))
    ELSE Finish("Err", Some(error))

\* how a panic leaves the call: it unwinds into the caller of generate(),
\* or kills the spawned task, which closes the stream
Panic(error) ==
    IF variant \in Streaming
    THEN Finish("StreamEnd", None)
    ELSE Finish("Panic", Some(error))

\* openai_request / call_api: build the request from the log and send it
CallApi ==
    /\ pc = "call_api"
    /\ requests < MaxRequests
    /\ IF poisoned
       THEN \* session.lock().unwrap() / context.lock().unwrap() on a poisoned Mutex
            /\ IF variant = "LibStream"
               THEN Finish("StreamEnd", None)
               ELSE Finish("Panic", Some("poisoned"))
            /\ failure' = "poisoned"
            /\ UNCHANGED <<messages, pending, requests, before>>
       ELSE /\ requests' = requests + 1
            /\ IF variant = "ChatGPT"
               THEN /\ messages' = Append(messages, Unwrap(pending))
                    /\ pending' = None
               ELSE UNCHANGED <<messages, pending>>
            /\ before' = [messages |-> messages', tools |-> tools]
            /\ pc' = "receive"
            /\ UNCHANGED <<result, failure>>
    /\ UNCHANGED <<variant, implementations, tools, usage, response, functions,
                   turns, start, users>>
    /\ UNCHANGED sseVars
    /\ UNCHANGED extVars

\* mutant: the message does not say which status came back
status_error_no_status(v, status) ==
    IF v \in {"AgentGenerate", "AgentStream"}
    THEN "failed to call openai api"
    ELSE "failed to call azure api, response=" \o ResponseText

\* the message of the error returned for a status other than 200
status_error(v, status) ==
    IF v \in {"AgentGenerate", "AgentStream"}
    THEN "failed to call openai api, status=" \o ToString(status)
    ELSE "failed to call azure api, status=" \o ToString(status)
         \o ", response=" \o ResponseText

\* the request failed, the status is not 200, or the body does not decode
ReceiveFault ==
    /\ pc = "receive"
    /\ variant \in {"AgentGenerate", "AgentStream", "LibGenerate", "LibStream", "Azure"}
    /\ \E resp \in Responses :
          LET error == IF resp.fault = "status"
                       THEN status_error(variant, resp.status) ELSE resp.fault
          IN  /\ resp.fault # "none"
              /\ failure' = resp.fault
              /\ response' = Some(resp)
              /\ IF variant = "LibStream" THEN Panic(error) ELSE Abort(error)
    /\ UNCHANGED <<variant, implementations, messages, tools, usage, requests,
                   functions, before, turns, start, pending, users>>
    /\ UNCHANGED sseVars
    /\ UNCHANGED extVars

\* from_json(body) / read_sse_response returned a ChatResponse
ReceiveResponse ==
    /\ pc = "receive"
    /\ variant \in {"AgentGenerate", "AgentStream", "LibGenerate", "LibStream", "Azure"}
    /\ \E resp \in Responses :
          /\ resp.fault = "none"
          /\ response' = Some(resp)
    /\ pc' = "process"
    /\ UNCHANGED <<variant, implementations, messages, tools, usage, requests,
                   functions, result, failure, before, turns, start, pending, users>>
    /\ UNCHANGED sseVars
    /\ UNCHANGED extVars

\* process_chat_response and what generate / generate_stream do with its result
ProcessChatResponse ==
    /\ pc = "process"
    /\ variant \in {"AgentGenerate", "AgentStream", "LibGenerate", "LibStream"}
    /\ LET resp == Unwrap(response)
           out == process_chat_response(resp, messages, implementations)
       IN  /\ messages' = out.log
           /\ usage' = IF variant \in {"LibGenerate", "LibStream"} THEN resp.usage ELSE usage
           /\ IF out.panic
              THEN /\ Panic(out.ret.error)
                   /\ failure' = out.ret.error
                   /\ turns' = turns
              ELSE IF ~out.ret.ok
              THEN /\ IF variant = "AgentStream" THEN Abort(out.ret.error) ELSE Panic(out.ret.error)
                   /\ failure' = out.ret.error
                   /\ turns' = turns
              ELSE IF IsSome(out.ret.value)
              THEN /\ IF variant \in Streaming
                      THEN Finish("StreamEnd", None)
                      ELSE Finish("Ok", out.ret.value)
                   /\ failure' = failure
                   /\ turns' = Append(turns, resp)
              ELSE /\ pc' = "call_api"
                   /\ result' = result
                   /\ failure' = failure
                   /\ turns' = Append(turns, resp)
    /\ response' = None
    /\ UNCHANGED <<variant, implementations, tools, requests, functions, before,
                   start, pending, users>>
    /\ UNCHANGED sseVars
    /\ poisoned' = (poisoned \/ process_chat_response(Unwrap(response), messages, implementations).panic)
    /\ UNCHANGED <<generates, systems, concVars, fileVars, pureVars>>

----------------------------------------------------------------------------
(* src/azure/chatgpt.rs: ChatGPT::process *)

AzureProcess ==
    /\ pc = "process"
    /\ variant = "Azure"
    /\ LET resp == Unwrap(response)
       IN  IF IsSome(resp.tool_calls)
           THEN LET calls == Unwrap(resp.tool_calls)
                IN  IF \E i \in 1..Len(calls) : ~from_json(calls[i].arguments).ok
                    THEN /\ Abort("arguments")
                         /\ failure' = "arguments"
                         /\ response' = None
                         /\ UNCHANGED <<messages, functions, turns>>
                    ELSE /\ messages' = Append(messages, new_function_call(calls))
                         /\ functions' = [i \in 1..Len(calls) |-> FunctionPayload(calls[i])]
                         /\ pc' = "dispatch"
                         /\ UNCHANGED <<response, result, failure, turns>>
           ELSE IF ~IsSome(resp.content)
                THEN /\ Panic("empty")
                     /\ failure' = "empty"
                     /\ response' = None
                     /\ UNCHANGED <<messages, functions, turns>>
                ELSE /\ messages' = Append(messages, new_message("Assistant", Unwrap(resp.content)))
                     /\ Finish("Ok", resp.content)
                     /\ turns' = Append(turns, resp)
                     /\ response' = None
                     /\ UNCHANGED <<functions, failure>>
    /\ UNCHANGED <<variant, implementations, tools, usage, requests, before, start,
                   pending, users>>
    /\ UNCHANGED sseVars
    /\ UNCHANGED extVars

AzureCallFunctions ==
    /\ pc = "dispatch"
    /\ variant = "Azure"
    /\ \E completed \in Orders(Len(functions)) :
          LET results == call_functions(implementations, functions, completed)
          IN  IF ~results.ok
              THEN /\ Abort(results.error)
                   /\ failure' = results.error
                   /\ UNCHANGED <<messages, turns>>
              ELSE /\ messages' = messages \o FunctionResponses(results.value)
                   /\ turns' = Append(turns, Unwrap(response))
                   /\ pc' = "call_api"
                   /\ UNCHANGED <<result, failure>>
    /\ response' = None
    /\ functions' = <<>>
    /\ UNCHANGED <<variant, implementations, tools, usage, requests, before, start,
                   pending, users>>
    /\ UNCHANGED sseVars
    /\ UNCHANGED extVars

----------------------------------------------------------------------------
(* src/openai/chatgpt.rs: ChatGPT::chat, process, process_event_source *)

\* process(): the events of one turn, up to the return of process()
OpenAIProcess ==
    /\ pc = "receive"
    /\ variant = "OpenAI"
    /\ \E resp \in Responses :
          IF resp.fault = "none" /\ IsSome(resp.tool_calls)
          THEN \* InternalEvent::FunctionCall: the calls in the order of the HashMap
               \E order \in Orders(Len(Unwrap(resp.tool_calls))) :
                  LET calls == Permute(Unwrap(resp.tool_calls), order)
                  IN  /\ messages' = Append(messages, new_function_call(calls))
                      /\ failure' = failure
                      /\ IF requests = 1
                         THEN /\ functions' = calls
                              /\ response' = Some(resp)
                              /\ pc' = "dispatch"
                              /\ UNCHANGED <<result, turns>>
                         ELSE /\ Finish("Ok", None)
                              /\ turns' = Append(turns, resp)
                              /\ UNCHANGED <<functions, response>>
          ELSE /\ messages' =
                     IF IsSome(resp.content) /\ Unwrap(resp.content) # ""
                     THEN Append(messages, new_message("Assistant", Unwrap(resp.content)))
                     ELSE messages
               /\ failure' = IF resp.fault = "none" THEN failure ELSE resp.fault
               /\ turns' = IF resp.fault = "none" THEN Append(turns, resp) ELSE turns
               \* a transport error reaches the handler as ChatEvent::Error; a frame
               \* that does not decode panics the reading task and closes the channel
               /\ IF resp.fault \in {"send", "status"}
                  THEN Finish("OkAfterErrorEvent", None)
                  ELSE Finish("Ok", None)
               /\ UNCHANGED <<functions, response>>
    /\ UNCHANGED <<variant, implementations, tools, usage, requests, before, start,
                   pending, users>>
    /\ UNCHANGED sseVars
    /\ UNCHANGED extVars

\* chat(): get_function for every call, join_all, push the results
OpenAIDispatch ==
    /\ pc = "dispatch"
    /\ variant = "OpenAI"
    /\ IF \E i \in 1..Len(functions) : functions[i].name \notin implementations
       THEN /\ Abort(NotFound)
            /\ failure' = NotFound
            /\ UNCHANGED <<messages, turns>>
       ELSE IF \E i \in 1..Len(functions) : ~from_json(functions[i].arguments).ok
       THEN /\ Abort("arguments")
            /\ failure' = "arguments"
            /\ UNCHANGED <<messages, turns>>
       ELSE IF \E i \in 1..Len(functions) :
                  ImplementationPanics(functions[i].name, functions[i].arguments)
       THEN /\ Abort(Panicked)
            /\ failure' = Panicked
            /\ UNCHANGED <<messages, turns>>
       ELSE /\ messages' = messages \o
                    [i \in 1..Len(functions) |->
                        new_function_response(functions[i].id,
                            Implementation(functions[i].name, functions[i].arguments))]
            /\ turns' = Append(turns, Unwrap(response))
            /\ pc' = "call_api"
            /\ UNCHANGED <<result, failure>>
    /\ response' = None
    /\ functions' = <<>>
    /\ UNCHANGED <<variant, implementations, tools, usage, requests, before, start,
                   pending, users>>
    /\ UNCHANGED sseVars
    /\ UNCHANGED extVars

----------------------------------------------------------------------------
(* src/chatgpt.rs: ChatGPT::chat, process (one function call per turn) *)

RECURSIVE ConcatArguments(_)
ConcatArguments(calls) ==
    IF calls = <<>> THEN ""
    ELSE calls[1].arguments \o ConcatArguments(Tail(calls))

ChatGPTProcess ==
    /\ pc = "receive"
    /\ variant = "ChatGPT"
    /\ \E resp \in Responses :
          /\ messages' =
                IF IsSome(resp.content) /\ Unwrap(resp.content) # ""
                THEN Append(messages, new_message("Assistant", Unwrap(resp.content)))
                ELSE messages
          /\ failure' = IF resp.fault = "none" THEN failure ELSE resp.fault
          /\ IF resp.fault = "none" /\ IsSome(resp.tool_calls) /\ requests = 1
             THEN LET calls == Unwrap(resp.tool_calls)
                  IN  /\ functions' = <<[name |-> calls[Len(calls)].name,
                                         arguments |-> ConcatArguments(calls)]>>
                      /\ response' = Some(resp)
                      /\ pc' = "dispatch"
                      /\ UNCHANGED <<result, turns>>
             ELSE /\ turns' = IF resp.fault = "none" THEN Append(turns, resp) ELSE turns
                  /\ IF resp.fault \in {"send", "status"}
                     THEN Finish("OkAfterErrorEvent", None)
                     ELSE Finish("Ok", None)
                  /\ UNCHANGED <<functions, response>>
    /\ UNCHANGED <<variant, implementations, tools, usage, requests, before, start,
                   pending, users>>
    /\ UNCHANGED sseVars
    /\ UNCHANGED extVars

ChatGPTDispatch ==
    /\ pc = "dispatch"
    /\ variant = "ChatGPT"
    /\ IF functions[1].name \notin implementations
       THEN /\ Panic(NotFound)
            /\ failure' = NotFound
            /\ UNCHANGED <<pending, turns>>
       ELSE IF ImplementationPanics(functions[1].name, functions[1].arguments)
       THEN /\ Abort(Panicked)
            /\ failure' = Panicked
            /\ UNCHANGED <<pending, turns>>
       ELSE /\ pending' = Some(new_function(functions[1].name,
                                Implementation(functions[1].name, functions[1].arguments)))
            /\ turns' = Append(turns, Unwrap(response))
            /\ pc' = "call_api"
            /\ UNCHANGED <<result, failure>>
    /\ response' = None
    /\ functions' = <<>>
    /\ UNCHANGED <<variant, implementations, messages, tools, usage, requests, before,
                   start, users>>
    /\ UNCHANGED sseVars
    /\ UNCHANGED extVars

\* the revisions whose session outlives a failed call behind a Mutex
\* (lib/agent, lib/openai) or a mem::take (src/chatgpt.rs)
RetryVariants == {"AgentGenerate", "AgentStream", "LibGenerate", "LibStream", "ChatGPT"}

\* the caller invokes generate() / generate_stream() / chat() again on the
\* session after a call that ended in a failure
Regenerate ==
    /\ pc = "done"
    /\ variant \in RetryVariants
    /\ failure # "none"
    /\ generates < MaxGenerates
    /\ generates' = generates + 1
    /\ pc' = "call_api"
    /\ requests' = 0
    /\ turns' = <<>>
    /\ failure' = "none"
    /\ result' = NoResult
    /\ response' = None
    /\ functions' = <<>>
    /\ IF variant = "ChatGPT"
       THEN /\ messages' = messages
            /\ pending' = Some(new_message("User", "What is 2+2?"))
       ELSE UNCHANGED <<messages, pending>>
    /\ start' = messages'
    /\ UNCHANGED <<variant, implementations, tools, usage, before, users>>
    /\ UNCHANGED <<sseVars, poisoned, systems, concVars, fileVars, pureVars>>

Next ==
    \/ AddUserMessage
    \/ Generate
    \/ Chat
    \/ CallApi
    \/ ReceiveFault
    \/ ReceiveResponse
    \/ ProcessChatResponse
    \/ AzureProcess
    \/ AzureCallFunctions
    \/ OpenAIProcess
    \/ OpenAIDispatch
    \/ ChatGPTProcess
    \/ ChatGPTDispatch

Spec == Init /\ [][Next]_vars

InitRetry ==
    /\ Init
    /\ variant \in RetryVariants

NextRetry ==
    \/ AddUserMessage
    \/ Generate
    \/ Chat
    \/ CallApi
    \/ ReceiveFault
    \/ ReceiveResponse
    \/ ProcessChatResponse
    \/ ChatGPTProcess
    \/ ChatGPTDispatch
    \/ Regenerate

\* the turn loop with a caller that calls again after a failure
SpecRetry == InitRetry /\ [][NextRetry]_vars

\* the revisions with an operation that sets the system message on a session
SessionVariants == {"AgentGenerate", "AgentStream", "LibGenerate", "LibStream", "Azure"}

\* Session::add_message(Message::SystemMessage) of lib/agent pushes the message;
\* Chat::system_message of lib/openai and ChatGPT::system_message of azure
\* remove a leading System message and insert the new one at index 0
\* mutant: setting the system message starts the log over
system_message_clear(v, log, text) ==
    <<new_message("System", text)>>

system_message(v, log, text) ==
    IF v \in {"AgentGenerate", "AgentStream"}
    THEN Append(log, new_message("System", text))
    ELSE LET rest == IF log # <<>> /\ log[1].role = "System" THEN Tail(log) ELSE log
         IN  <<new_message("System", text)>> \o rest

SystemMessage ==
    /\ pc = "idle"
    /\ variant \in SessionVariants
    /\ systems < MaxSystems
    /\ \E text \in SystemTexts : messages' = system_message(variant, messages, text)
    /\ systems' = systems + 1
    /\ UNCHANGED <<variant, implementations, tools, usage, pc, requests, response,
                   functions, result, failure, before, turns, start, pending, users>>
    /\ UNCHANGED <<sseVars, poisoned, generates, concVars, fileVars, pureVars>>

NextSession ==
    \/ Next
    \/ SystemMessage

\* the turn loop on a session whose system message is set before the call
SpecSession == Init /\ [][NextSession]_vars

----------------------------------------------------------------------------
(* One streamed turn: frames, reader, channel, listener *)

SseVariants == {"AgentStream", "LibStream", "Azure", "OpenAI"}

\* what a frame payload decodes to (ChatStreamResponse, first choice only)
Decoded(has_choice, content, tool_call, finish_reason, u) ==
    [has_choice |-> has_choice, content |-> content, tool_call |-> tool_call,
     finish_reason |-> finish_reason, usage |-> u]

StreamToolCall(index, id, name, arguments) ==
    [index |-> index, id |-> id, name |-> name, arguments |-> arguments]

DoneData == "[DONE]"
BadData == "{\"choices\":"
IoError == "<io error>"
LongData(i) == "{content:" \o ToString(i) \o "}"

JsonData ==
    [d \in {"{content:a}", "{content:}", "{content:b,finish:stop}", "{finish:stop}",
            "{usage:10,5}", "{call:0,call_1,get_random_number,}",
            "{call:0,,,{\"ma}", "{call:0,,,x\":5}}",
            "{call:1,call_2,get_random_number,}", "{call:1,,,{\"max\":5}}",
            "{call:0,call_9,unknown,}"} |->
        CASE d = "{content:a}" -> Decoded(TRUE, Some("a"), None, None, None)
          [] d = "{content:}" -> Decoded(TRUE, Some(""), None, None, None)
          [] d = "{content:b,finish:stop}" -> Decoded(TRUE, Some("b"), None, Some("stop"), None)
          [] d = "{finish:stop}" -> Decoded(TRUE, None, None, Some("stop"), None)
          [] d = "{usage:10,5}" ->
                Decoded(FALSE, None, None, None,
                        Some([prompt_tokens |-> 10, completion_tokens |-> 5]))
          [] d = "{call:0,call_1,get_random_number,}" ->
                Decoded(TRUE, None,
                        Some(StreamToolCall(0, Some("call_1"), Some(RegisteredName), "")),
                        None, None)
          [] d = "{call:0,,,{\"ma}" ->
                Decoded(TRUE, None, Some(StreamToolCall(0, None, None, "{\"ma")), None, None)
          [] d = "{call:0,,,x\":5}}" ->
                Decoded(TRUE, None, Some(StreamToolCall(0, None, None, "x\":5}")), None, None)
          [] d = "{call:1,call_2,get_random_number,}" ->
                Decoded(TRUE, None,
                        Some(StreamToolCall(1, Some("call_2"), Some(RegisteredName), "")),
                        None, None)
          [] d = "{call:1,,,{\"max\":5}}" ->
                Decoded(TRUE, None, Some(StreamToolCall(1, None, None, ValidArguments)),
                        None, None)
          [] d = "{call:0,call_9,unknown,}" ->
                Decoded(TRUE, None, Some(StreamToolCall(0, Some("call_9"), Some("unknown"), "")),
                        None, None)]

\* the frames of a long answer: frame i carries the text of the number i
LongJsonData ==
    [d \in {LongData(i) : i \in 1..LongFrames} |->
        Decoded(TRUE, Some(ToString(CHOOSE i \in 1..LongFrames : d = LongData(i))),
                None, None, None)]

\* json::from_json::<ChatStreamResponse>(data)
from_json_frame(data) ==
    IF data \in DOMAIN JsonData THEN Ok(JsonData[data])
    ELSE IF data \in DOMAIN LongJsonData THEN Ok(LongJsonData[data])
    ELSE Err("decode")

\* the frames of a turn with tool calls: fragments for two indices, and a
\* fragment that carries a name for an index that has one
CallFrameData == {"{call:0,call_1,get_random_number,}", "{call:0,,,{\"ma}", "{call:0,,,x\":5}}",
                  "{call:1,call_2,get_random_number,}", "{call:1,,,{\"max\":5}}",
                  "{call:0,call_9,unknown,}"}

FrameData == {"{content:a}", "{content:}", "{content:b,finish:stop}", "{finish:stop}",
              "{usage:10,5}", "{call:0,call_1,get_random_number,}",
              "{call:0,,,{\"ma}", "{call:0,,,x\":5}}", DoneData, BadData, IoError}

LongBody == [i \in 1..LongFrames |-> LongData(i)] \o <<DoneData>>

Bodies == SeqsUpTo(FrameData, MaxFrames) \cup {LongBody}

\* segments of a body that are not "data: <payload>": a data line without
\* the space, and a line of another field
NoSpaceData == "data:{content:a}"
EventLine == "event: ping"

\* the line of a frame, as the tokens a chunk boundary may fall between; a
\* frame that is not a raw segment stands for the line "data: <payload>"
LineTokens(frame) ==
    IF frame = NoSpaceData THEN <<"data:", "{content:a}">>
    ELSE IF frame = EventLine THEN <<EventLine>>
    ELSE <<"data:", " ", frame>>

\* line.strip_prefix("data: ")
strip_prefix_data(tokens) ==
    IF Len(tokens) >= 2 /\ tokens[1] = "data:" /\ tokens[2] = " "
    THEN Some(SubSeq(tokens, 3, Len(tokens)))
    ELSE None

\* the body as Azure reads it: "<line>\n\n" per frame, as the tokens a chunk
\* boundary may fall between
RECURSIVE Wire(_)
Wire(frames) ==
    IF frames = <<>> THEN <<>>
    ELSE (IF frames[1] = IoError
          THEN <<IoError>>
          ELSE LineTokens(frames[1]) \o <<"\n", "\n">>)
         \o Wire(Tail(frames))

Item(type, text, calls) == [type |-> type, text |-> text, calls |-> calls]
DeltaItem(text) == Item("Delta", text, None)

EmptyChoice == [content |-> None, tool_calls |-> None, finish_reason |-> "", usage |-> NoUsage]

\* mutant: a delta replaces the content received so far
append_content_replace(content, delta) == Some(delta)

\* ChatCompletionChoice::append_content
append_content(content, delta) ==
    IF IsSome(content) THEN Some(Unwrap(content) \o delta) ELSE Some(delta)

\* mutant: a fragment is put in front of the arguments received so far
accumulate_tool_call_prepend(tool_calls, fragment) ==
    LET base == IF IsSome(tool_calls) THEN Unwrap(tool_calls) ELSE <<>>
    IN  IF IsSome(fragment.name) /\ ~IsSome(fragment.id)
        THEN [panic |-> TRUE, tool_calls |-> tool_calls]
        ELSE LET pushed == IF IsSome(fragment.name)
                           THEN Append(base, [id |-> Unwrap(fragment.id),
                                              name |-> Unwrap(fragment.name),
                                              arguments |-> ""])
                           ELSE base
             IN  IF fragment.index + 1 \notin 1..Len(pushed)
                 THEN [panic |-> TRUE, tool_calls |-> tool_calls]
                 ELSE [panic |-> FALSE,
                       tool_calls |-> Some([pushed EXCEPT ![fragment.index + 1].arguments =
                                               fragment.arguments \o @])]

\* the tool-call branch of read_sse_response: push a call when the fragment
\* carries a name, then append the arguments to the call at the fragment's index
accumulate_tool_call(tool_calls, fragment) ==
    LET base == IF IsSome(tool_calls) THEN Unwrap(tool_calls) ELSE <<>>
    IN  IF IsSome(fragment.name) /\ ~IsSome(fragment.id)
        THEN [panic |-> TRUE, tool_calls |-> tool_calls]
        ELSE LET pushed == IF IsSome(fragment.name)
                           THEN Append(base, [id |-> Unwrap(fragment.id),
                                              name |-> Unwrap(fragment.name),
                                              arguments |-> ""])
                           ELSE base
             IN  IF fragment.index + 1 \notin 1..Len(pushed)
                 THEN [panic |-> TRUE, tool_calls |-> tool_calls]
                 ELSE [panic |-> FALSE,
                       tool_calls |-> Some([pushed EXCEPT ![fragment.index + 1].arguments =
                                               @ \o fragment.arguments])]

\* the body of the loop of read_sse_response for one decoded frame: the
\* response accumulated so far, and the items it sends to the listener
read_sse_frame(acc, frame) ==
    LET calls == IF frame.has_choice /\ IsSome(frame.tool_call)
                 THEN accumulate_tool_call(acc.tool_calls, Unwrap(frame.tool_call))
                 ELSE [panic |-> FALSE, tool_calls |-> acc.tool_calls]
        text == frame.has_choice /\ ~IsSome(frame.tool_call) /\ IsSome(frame.content)
        stop == frame.has_choice /\ frame.finish_reason = Some("stop")
    IN  [panic |-> calls.panic,
         choice |-> [content |-> IF text THEN append_content(acc.content, Unwrap(frame.content))
                                 ELSE acc.content,
                     tool_calls |-> calls.tool_calls,
                     finish_reason |-> IF frame.has_choice /\ IsSome(frame.finish_reason)
                                       THEN Unwrap(frame.finish_reason)
                                       ELSE acc.finish_reason,
                     usage |-> IF IsSome(frame.usage) THEN Unwrap(frame.usage) ELSE acc.usage],
         items |-> (IF text THEN <<DeltaItem(Unwrap(frame.content))>> ELSE <<>>)
                   \o (IF stop THEN <<DeltaItem("\n")>> ELSE <<>>)]

\* mutant: the newest item overtakes the items waiting in the channel
tx_send_overtake(queue, item) == <<item>> \o queue

\* Sender::send once the channel has room
tx_send(queue, item) == Append(queue, item)

InitSse ==
    /\ variant \in SseVariants
    /\ implementations = {RegisteredName}
    /\ messages = <<new_message("User", "What is 2+2?")>>
    /\ tools = Some(<<RegisteredName>>)
    /\ usage = NoUsage
    /\ pc = "receive"
    /\ requests = 1
    /\ response = None
    /\ functions = <<>>
    /\ result = NoResult
    /\ failure = "none"
    /\ before = [messages |-> messages, tools |-> tools]
    /\ turns = <<>>
    /\ start = messages
    /\ pending = None
    /\ users = 1
    /\ body \in IF variant = "Azure" THEN SeqsUpTo(FrameData, MaxFrames) ELSE Bodies
    /\ pos = 0
    /\ buffer = <<>>
    /\ choice = EmptyChoice
    /\ outbox = <<>>
    /\ channel = <<>>
    /\ received = <<>>
    /\ ssePc = "next"
    /\ doneRead = None
    /\ wasFull = FALSE
    /\ InitExt

\* mutant: a body that ends without [DONE] is an error of the stream
end_of_body_is_error(v) == "failed"

\* read_sse_response when the source has no more events, lines or chunks: the
\* while-let loop ends and Ok(response) is returned, [DONE] read or not
end_of_body(v) == "returned"

\* read_sse_response of lib/agent and lib/openai: await the next event and
\* handle it, up to the next await
SseRead ==
    /\ variant \in {"AgentStream", "LibStream"}
    /\ ssePc = "next"
    /\ outbox = <<>>
    /\ IF pos = Len(body)
       THEN /\ ssePc' = end_of_body(variant)
            /\ UNCHANGED <<pos, choice, outbox, doneRead>>
       ELSE LET stripped == strip_prefix_data(LineTokens(body[pos + 1]))
                \* lib/openai reads lines; lib/agent is handed the event's data
                data == IF variant = "LibStream" /\ IsSome(stripped)
                        THEN Unwrap(stripped)[1]
                        ELSE body[pos + 1]
                parsed == from_json_frame(data)
                handled == read_sse_frame(choice, parsed.value)
            IN  /\ pos' = pos + 1
                /\ IF data = IoError
                   THEN /\ ssePc' = "failed"
                        /\ UNCHANGED <<choice, outbox, doneRead>>
                   ELSE IF variant = "LibStream" /\ ~IsSome(stripped)
                   THEN UNCHANGED <<choice, outbox, ssePc, doneRead>>
                   ELSE IF data = DoneData
                   THEN /\ ssePc' = "returned"
                        /\ doneRead' = Some(pos + 1)
                        /\ UNCHANGED <<choice, outbox>>
                   ELSE IF ~parsed.ok
                   THEN /\ ssePc' = "failed"
                        /\ UNCHANGED <<choice, outbox, doneRead>>
                   ELSE IF handled.panic
                   THEN /\ ssePc' = "panicked"
                        /\ UNCHANGED <<choice, outbox, doneRead>>
                   ELSE /\ choice' = handled.choice
                        /\ outbox' = handled.items
                        /\ UNCHANGED <<ssePc, doneRead>>
    /\ UNCHANGED <<body, buffer, channel, received, wasFull>>
    /\ UNCHANGED engineVars
    /\ UNCHANGED extVars

\* the reader's pending send completes when the channel has room
SseSend ==
    /\ outbox # <<>>
    /\ Len(channel) < ChannelCapacity
    /\ channel' = tx_send(channel, Head(outbox))
    /\ outbox' = Tail(outbox)
    /\ wasFull' = (wasFull \/ Len(channel') = ChannelCapacity)
    /\ UNCHANGED <<body, pos, buffer, choice, received, ssePc, doneRead>>
    /\ UNCHANGED engineVars
    /\ UNCHANGED extVars

\* the listener takes the next item: TextStream::poll_next, rx.recv()
Listen ==
    /\ channel # <<>>
    /\ received' = Append(received, Head(channel))
    /\ channel' = Tail(channel)
    /\ UNCHANGED <<body, pos, buffer, choice, outbox, ssePc, doneRead, wasFull>>
    /\ UNCHANGED engineVars
    /\ UNCHANGED extVars

\* process_sse / generate_stream: the response read_sse_response returned
\* goes through process_chat_response
SseProcess ==
    /\ variant \in {"AgentStream", "LibStream"}
    /\ ssePc = "returned"
    /\ LET resp == [fault |-> "none", content |-> choice.content,
                    tool_calls |-> choice.tool_calls, usage |-> choice.usage]
           out == process_chat_response(resp, messages, implementations)
       IN  /\ messages' = out.log
           /\ usage' = IF variant = "LibStream" THEN resp.usage ELSE usage
           /\ ssePc' = IF out.panic THEN "panicked" ELSE "processed"
    /\ UNCHANGED <<variant, implementations, tools, pc, requests, response, functions,
                   result, failure, before, turns, start, pending, users>>
    /\ UNCHANGED <<body, pos, buffer, choice, outbox, channel, received, doneRead, wasFull>>
    /\ poisoned' = (poisoned \/ process_chat_response([fault |-> "none", content |-> choice.content,
                         tool_calls |-> choice.tool_calls, usage |-> choice.usage], messages, implementations).panic)
    /\ UNCHANGED <<generates, systems, concVars, fileVars, pureVars>>

----------------------------------------------------------------------------
(* src/azure/chatgpt.rs: read_sse_response over chunks and a text buffer *)

Min(a, b) == IF a < b THEN a ELSE b

\* buffer.find("\n\n"), as a position from 1; 0 when there is none
FindBlankLine(buf) ==
    LET found == {i \in 1..(Len(buf) - 1) : buf[i] = "\n" /\ buf[i + 1] = "\n"}
    IN  IF found = {} THEN 0 ELSE CHOOSE i \in found : \A j \in found : i <= j

\* buffer.starts_with("data:")
StartsWithData(buf) ==
    buf # <<>> /\ buf[1] = "data:"

\* the inner loop of read_sse_response: handle the complete frames of the
\* buffer; a [DONE] frame breaks out of this loop only and stays in the buffer
RECURSIVE azure_drain(_, _, _, _)
azure_drain(buf, acc, printed, done) ==
    LET index == FindBlankLine(buf)
        \* &buffer[6..index]: the sixth byte is dropped, a space or not
        data == IF buf[2] = " " THEN SubSeq(buf, 3, index - 1)
                ELSE <<SubSeq(buf[2], 2, Len(buf[2]))>> \o SubSeq(buf, 3, index - 1)
        parsed == IF Len(data) = 1 THEN from_json_frame(data[1]) ELSE Err("decode")
        handled == read_sse_frame(acc, parsed.value)
        out(status, isDone) == [status |-> status, buffer |-> buf, choice |-> acc,
                                printed |-> printed, done |-> isDone]
    IN  IF index = 0 THEN out("next", done)
        ELSE IF ~StartsWithData(buf) THEN out("failed", done)
        ELSE IF index < 3 THEN out("panicked", done)
        ELSE IF data = <<DoneData>> THEN out("next", TRUE)
        ELSE IF ~parsed.ok THEN out("failed", done)
        ELSE IF handled.panic THEN out("panicked", done)
        ELSE azure_drain(SubSeq(buf, index + 2, Len(buf)), handled.choice,
                         printed \o handled.items, done)

\* http_response.chunk().await: the next chunk holds any number of the bytes
\* that are left; console::print is the listener
AzureReadChunk ==
    /\ variant = "Azure"
    /\ ssePc = "next"
    /\ LET wire == Wire(body)
       IN  IF pos = Len(wire)
           THEN /\ ssePc' = end_of_body(variant)
                /\ UNCHANGED <<pos, buffer, choice, received, doneRead>>
           ELSE IF wire[pos + 1] = IoError
           THEN /\ ssePc' = "failed"
                /\ pos' = pos + 1
                /\ UNCHANGED <<buffer, choice, received, doneRead>>
           ELSE \E n \in 1..Min(Len(wire) - pos, MaxChunk) :
                   /\ \A k \in (pos + 1)..(pos + n) : wire[k] # IoError
                   /\ LET drained == azure_drain(buffer \o SubSeq(wire, pos + 1, pos + n),
                                                 choice, <<>>, FALSE)
                      IN  /\ pos' = pos + n
                          /\ buffer' = drained.buffer
                          /\ choice' = drained.choice
                          /\ received' = received \o drained.printed
                          /\ ssePc' = drained.status
                          /\ doneRead' = IF drained.done /\ doneRead = None
                                         THEN Some(pos + n) ELSE doneRead
    /\ UNCHANGED <<body, outbox, channel, wasFull>>
    /\ UNCHANGED engineVars
    /\ UNCHANGED extVars

\* process(): the message the returned response adds to the log
AzureSseProcess ==
    /\ variant = "Azure"
    /\ ssePc = "returned"
    /\ IF IsSome(choice.tool_calls)
       THEN IF \E i \in 1..Len(Unwrap(choice.tool_calls)) :
                  ~from_json(Unwrap(choice.tool_calls)[i].arguments).ok
            THEN /\ ssePc' = "failed"
                 /\ messages' = messages
            ELSE /\ ssePc' = "processed"
                 /\ messages' = Append(messages, new_function_call(Unwrap(choice.tool_calls)))
       ELSE IF ~IsSome(choice.content)
            THEN /\ ssePc' = "panicked"
                 /\ messages' = messages
            ELSE /\ ssePc' = "processed"
                 /\ messages' = Append(messages, new_message("Assistant", Unwrap(choice.content)))
    /\ UNCHANGED <<variant, implementations, tools, usage, pc, requests, response,
                   functions, result, failure, before, turns, start, pending, users>>
    /\ UNCHANGED <<body, pos, buffer, choice, outbox, channel, received, doneRead, wasFull>>
    /\ UNCHANGED extVars

----------------------------------------------------------------------------
(* src/openai/chatgpt.rs: process_event_source and the loop of process() *)

\* HashMap::insert
insert(map, key, value) ==
    [k \in DOMAIN map \cup {key} |-> IF k = key THEN value ELSE map[k]]

\* one message event of process_event_source
process_event(calls, frame) ==
    IF ~frame.has_choice
    THEN [panic |-> FALSE, calls |-> calls, items |-> <<>>]
    ELSE IF IsSome(frame.tool_call)
    THEN LET fragment == Unwrap(frame.tool_call)
         IN  IF IsSome(fragment.name) /\ ~IsSome(fragment.id)
             THEN [panic |-> TRUE, calls |-> calls, items |-> <<>>]
             ELSE LET inserted ==
                          IF IsSome(fragment.name)
                          THEN insert(calls, fragment.index,
                                      [id |-> Unwrap(fragment.id),
                                       name |-> Unwrap(fragment.name), arguments |-> ""])
                          ELSE calls
                  IN  IF fragment.index \notin DOMAIN inserted
                      THEN [panic |-> TRUE, calls |-> calls, items |-> <<>>]
                      ELSE [panic |-> FALSE,
                            calls |-> [inserted EXCEPT ![fragment.index].arguments =
                                          @ \o fragment.arguments],
                            items |-> <<>>]
    ELSE IF IsSome(frame.content)
    THEN [panic |-> FALSE, calls |-> calls, items |-> <<DeltaItem(Unwrap(frame.content))>>]
    ELSE [panic |-> FALSE, calls |-> calls, items |-> <<>>]

\* what the task sends after its loop: the calls, or End
FinalItem(calls) ==
    IF DOMAIN calls # {} THEN Item("FunctionCall", "", Some(calls)) ELSE Item("End", "", None)

OpenAIRead ==
    /\ variant = "OpenAI"
    /\ ssePc = "next"
    /\ outbox = <<>>
    /\ LET calls == IF IsSome(choice.tool_calls) THEN Unwrap(choice.tool_calls) ELSE <<>>
       IN  IF pos = Len(body)
           THEN /\ ssePc' = "closed"
                /\ outbox' = <<FinalItem(calls)>>
                /\ UNCHANGED <<pos, choice, doneRead>>
           ELSE LET data == body[pos + 1]
                    parsed == from_json_frame(data)
                    handled == process_event(calls, parsed.value)
                IN  /\ pos' = pos + 1
                    /\ IF data = IoError
                       THEN /\ ssePc' = "closed"
                            /\ outbox' = <<Item("Error", "", None), FinalItem(calls)>>
                            /\ UNCHANGED <<choice, doneRead>>
                       ELSE IF data = DoneData
                       THEN /\ ssePc' = "closed"
                            /\ outbox' = <<FinalItem(calls)>>
                            /\ doneRead' = Some(pos + 1)
                            /\ UNCHANGED choice
                       ELSE IF ~parsed.ok \/ handled.panic
                       THEN /\ ssePc' = "panicked"
                            /\ UNCHANGED <<choice, outbox, doneRead>>
                       ELSE /\ choice' = [choice EXCEPT !.tool_calls =
                                             IF DOMAIN handled.calls = {} THEN None
                                             ELSE Some(handled.calls)]
                            /\ outbox' = handled.items
                            /\ UNCHANGED <<ssePc, doneRead>>
    /\ UNCHANGED <<body, buffer, channel, received, wasFull>>
    /\ UNCHANGED engineVars
    /\ UNCHANGED extVars

RECURSIVE ConcatText(_)
ConcatText(items) ==
    IF items = <<>> THEN ""
    ELSE (IF items[1].type = "Delta" THEN items[1].text ELSE "") \o ConcatText(Tail(items))

\* process(): rx.recv() returned None, or the FunctionCall event arrived
OpenAISseProcess ==
    /\ variant = "OpenAI"
    /\ ssePc \in {"closed", "panicked"}
    /\ outbox = <<>>
    /\ channel = <<>>
    /\ ssePc' = "processed"
    /\ IF received # <<>> /\ received[Len(received)].type = "FunctionCall"
       THEN LET calls == Unwrap(received[Len(received)].calls)
            IN  \E order \in {o \in [1..Cardinality(DOMAIN calls) -> DOMAIN calls] :
                                \A i, j \in DOMAIN o : o[i] = o[j] => i = j} :
                   messages' = Append(messages,
                                      new_function_call([i \in DOMAIN order |-> calls[order[i]]]))
       ELSE messages' = IF ConcatText(received) # ""
                        THEN Append(messages, new_message("Assistant", ConcatText(received)))
                        ELSE messages
    /\ UNCHANGED <<variant, implementations, tools, usage, pc, requests, response,
                   functions, result, failure, before, turns, start, pending, users>>
    /\ UNCHANGED <<body, pos, buffer, choice, outbox, channel, received, doneRead, wasFull>>
    /\ UNCHANGED extVars

\* one streamed turn whose frames are tool-call fragments
InitCalls ==
    /\ variant \in {"AgentStream", "LibStream", "OpenAI"}
    /\ implementations = {RegisteredName}
    /\ messages = <<new_message("User", "What is 2+2?")>>
    /\ tools = Some(<<RegisteredName>>)
    /\ usage = NoUsage
    /\ pc = "receive"
    /\ requests = 1
    /\ response = None
    /\ functions = <<>>
    /\ result = NoResult
    /\ failure = "none"
    /\ before = [messages |-> messages, tools |-> tools]
    /\ turns = <<>>
    /\ start = messages
    /\ pending = None
    /\ users = 1
    /\ body \in {Append(frames, DoneData) : frames \in SeqsUpTo(CallFrameData, MaxFragments)}
    /\ pos = 0
    /\ buffer = <<>>
    /\ choice = EmptyChoice
    /\ outbox = <<>>
    /\ channel = <<>>
    /\ received = <<>>
    /\ ssePc = "next"
    /\ doneRead = None
    /\ wasFull = FALSE
    /\ InitExt

NextCalls ==
    \/ SseRead
    \/ OpenAIRead
    \/ SseSend
    \/ Listen
    \/ SseProcess
    \/ OpenAISseProcess

SpecCalls == InitCalls /\ [][NextCalls]_vars

\* one streamed turn whose body has lines that are not "data: <payload>"
FramingData == {"{content:a}", "{content:b,finish:stop}", NoSpaceData, EventLine, DoneData}

InitFraming ==
    /\ variant \in {"LibStream", "Azure"}
    /\ implementations = {RegisteredName}
    /\ messages = <<new_message("User", "What is 2+2?")>>
    /\ tools = Some(<<RegisteredName>>)
    /\ usage = NoUsage
    /\ pc = "receive"
    /\ requests = 1
    /\ response = None
    /\ functions = <<>>
    /\ result = NoResult
    /\ failure = "none"
    /\ before = [messages |-> messages, tools |-> tools]
    /\ turns = <<>>
    /\ start = messages
    /\ pending = None
    /\ users = 1
    /\ body \in SeqsUpTo(FramingData, MaxSegments)
    /\ pos = 0
    /\ buffer = <<>>
    /\ choice = EmptyChoice
    /\ outbox = <<>>
    /\ channel = <<>>
    /\ received = <<>>
    /\ ssePc = "next"
    /\ doneRead = None
    /\ wasFull = FALSE
    /\ InitExt

NextFraming ==
    \/ SseRead
    \/ AzureReadChunk
    \/ SseSend
    \/ Listen
    \/ SseProcess
    \/ AzureSseProcess

SpecFraming == InitFraming /\ [][NextFraming]_vars

NextSse ==
    \/ SseRead
    \/ AzureReadChunk
    \/ OpenAIRead
    \/ SseSend
    \/ Listen
    \/ SseProcess
    \/ AzureSseProcess
    \/ OpenAISseProcess

SpecSse == InitSse /\ [][NextSse]_vars

----------------------------------------------------------------------------
(* Several turn loops and the caller on one session: generate_stream of     *)
(* lib/openai and lib/agent spawns the loop and returns; the Mutex around   *)
(* the session is held inside call_api / openai_request and inside          *)
(* process_chat_response, not across a loop                                 *)

IdleLoop == [pc |-> "idle", request |-> <<>>, requests |-> 0]

InFlight(l) == loops[l].pc \in {"call_api", "receive"}

\* what a request comes back with here: a text, or one call of the registered function
ConcResponses ==
    {[fault |-> "none", content |-> Some("4"), tool_calls |-> None, usage |-> NoUsage],
     [fault |-> "none", content |-> None,
      tool_calls |-> Some(<<[id |-> "call_1", name |-> RegisteredName,
                             arguments |-> ValidArguments]>>),
      usage |-> NoUsage]}

InitConc ==
    /\ variant \in Streaming
    /\ implementations = {RegisteredName}
    /\ messages = <<new_message("User", "What is 2+2?")>>
    /\ tools = Some(<<RegisteredName>>)
    /\ usage = NoUsage
    /\ pc = "idle"
    /\ requests = 0
    /\ response = None
    /\ functions = <<>>
    /\ result = NoResult
    /\ failure = "none"
    /\ before = [messages |-> <<>>, tools |-> None]
    /\ turns = <<>>
    /\ start = <<>>
    /\ pending = None
    /\ users = 1
    /\ body = <<>>
    /\ pos = 0
    /\ buffer = <<>>
    /\ choice = None
    /\ outbox = <<>>
    /\ channel = <<>>
    /\ received = <<>>
    /\ ssePc = "none"
    /\ doneRead = None
    /\ wasFull = FALSE
    /\ poisoned = FALSE
    /\ generates = 0
    /\ systems = 0
    /\ loops = [l \in 1..MaxLoops |-> IdleLoop]
    /\ foreign = FALSE
    /\ files = <<>>
    /\ attached = Err("none")
    /\ InitPure

\* generate_stream(): spawn the loop and return the stream
ConcGenerateStream ==
    /\ \E l \in 1..MaxLoops :
          /\ loops[l].pc = "idle"
          /\ \A k \in 1..(l - 1) : loops[k].pc # "idle"
          /\ loops' = [loops EXCEPT ![l].pc = "call_api"]
    /\ generates' = generates + 1
    /\ UNCHANGED <<engineVars, sseVars, poisoned, systems, foreign, fileVars, pureVars>>

\* call_api / openai_request of a loop: lock, build the request from the log, unlock
ConcCallApi ==
    /\ \E l \in 1..MaxLoops :
          /\ loops[l].pc = "call_api"
          /\ loops[l].requests < MaxRequests
          /\ loops' = [loops EXCEPT ![l] = [pc |-> "receive", request |-> messages,
                                            requests |-> @.requests + 1]]
    /\ UNCHANGED <<engineVars, sseVars, sessionVars, foreign, fileVars, pureVars>>

\* process_chat_response of a loop: lock, append to the log, unlock
ConcProcess ==
    /\ \E l \in 1..MaxLoops, resp \in ConcResponses :
          LET out == process_chat_response(resp, messages, implementations)
          IN  /\ loops[l].pc = "receive"
              /\ messages' = out.log
              /\ loops' = [loops EXCEPT ![l].pc =
                              IF IsSome(out.ret.value) THEN "done" ELSE "call_api"]
              /\ foreign' = (foreign \/ \E k \in 1..MaxLoops : k # l /\ InFlight(k))
    /\ UNCHANGED <<variant, implementations, tools, usage, pc, requests, response,
                   functions, result, failure, before, turns, start, pending, users>>
    /\ UNCHANGED <<sseVars, sessionVars, fileVars, pureVars>>

\* add_user_message / Session::add_message by the caller: lock, push, unlock
ConcAddUserMessage ==
    /\ users <= MaxUsers
    /\ users' = users + 1
    /\ messages' = Append(messages, new_message("User", "And 3+3?"))
    /\ foreign' = (foreign \/ \E k \in 1..MaxLoops : InFlight(k))
    /\ UNCHANGED <<variant, implementations, tools, usage, pc, requests, response,
                   functions, result, failure, before, turns, start, pending>>
    /\ UNCHANGED <<sseVars, sessionVars, loops, fileVars, pureVars>>

NextConc ==
    \/ ConcGenerateStream
    \/ ConcCallApi
    \/ ConcProcess
    \/ ConcAddUserMessage

SpecConc == InitConc /\ [][NextConc]_vars

----------------------------------------------------------------------------
(* add_user_message with attachments: image_urls, base64_image_url *)

Paths == {"photo.jpg", "photo.png", "doc.pdf", "archive.zip", "notes"}

\* fs::read: the bytes of the attached files
FileContent(path) ==
    CASE path = "photo.jpg" -> "a"
      [] path = "photo.png" -> "ab"
      [] path = "doc.pdf" -> "abc"
      [] OTHER -> ""

\* BASE64_STANDARD.encode
Base64(content) ==
    CASE content = "a" -> "YQ=="
      [] content = "ab" -> "YWI="
      [] content = "abc" -> "YWJj"
      [] OTHER -> ""

\* Path::extension: the part of the file name after its last dot
Dots(path) == {i \in 2..Len(path) : SubSeq(path, i, i) = "."}
file_extension(path) ==
    IF Dots(path) = {}
    THEN Err("file must have extension, path=" \o path)
    ELSE LET dot == CHOOSE i \in Dots(path) : \A k \in Dots(path) : k <= i
         IN  Ok(SubSeq(path, dot + 1, Len(path)))

\* the match on the extension: azure has no arm for pdf
mime_type(v, extension) ==
    CASE extension = "jpg" -> Ok("image/jpeg")
      [] extension = "png" -> Ok("image/png")
      [] extension = "pdf" /\ v # "Azure" -> Ok("application/pdf")
      [] OTHER -> Err("not supported extension")

base64_image_url(v, path) ==
    LET extension == file_extension(path)
    IN  IF ~extension.ok THEN extension
        ELSE LET mime == mime_type(v, extension.value)
             IN  IF ~mime.ok THEN Err(mime.error \o ", path=" \o path)
                 ELSE Ok("data:" \o mime.value \o ";base64," \o Base64(FileContent(path)))

\* image_urls: the first file that fails ends the loop with its error
RECURSIVE image_urls(_, _)
image_urls(v, paths) ==
    IF paths = <<>> THEN Ok(<<>>)
    ELSE LET url == base64_image_url(v, Head(paths))
         IN  IF ~url.ok THEN url
             ELSE LET rest == image_urls(v, Tail(paths))
                  IN  IF ~rest.ok THEN rest ELSE Ok(<<url.value>> \o rest.value)

FileLists == UNION {[1..n -> Paths] : n \in 0..MaxFiles}

\* Chat::add_user_message(message, files); the image_url parts of the pushed
\* message are kept in `attached`
AddUserMessageFiles ==
    /\ pc = "idle"
    /\ variant \in {"LibGenerate", "LibStream", "Azure"}
    /\ users <= MaxUsers
    /\ users' = users + 1
    /\ \E paths \in FileLists, text \in UserTexts :
          /\ files' = paths
          /\ attached' = image_urls(variant, paths)
          /\ messages' = IF attached'.ok
                         THEN Append(messages, new_message("User", text))
                         ELSE messages
    /\ UNCHANGED <<variant, implementations, tools, usage, pc, requests, response,
                   functions, result, failure, before, turns, start, pending>>
    /\ UNCHANGED <<sseVars, sessionVars, concVars, pureVars>>

InitFiles ==
    /\ Init
    /\ variant \in {"LibGenerate", "LibStream", "Azure"}

NextFiles ==
    \/ AddUserMessageFiles

\* a session that receives user messages with attachments
SpecFiles == InitFiles /\ [][NextFiles]_vars

----------------------------------------------------------------------------
(* src/gcloud/gemini.rs: Gemini::add_user_text, generate, process, call_api *)

Part(text, inline_data, function_call, function_response) ==
    [text |-> text, inline_data |-> inline_data, function_call |-> function_call,
     function_response |-> function_response]

\* inline_data / inline_datas: the mime type of the extension and the bytes
\* in base64; the first file that fails ends the loop with its error
RECURSIVE inline_datas(_)
inline_datas(paths) ==
    IF paths = <<>> THEN Ok(<<>>)
    ELSE LET extension == file_extension(Head(paths))
             mime == IF extension.ok THEN mime_type("Gemini", extension.value) ELSE extension
             rest == inline_datas(Tail(paths))
         IN  IF ~mime.ok THEN Err(mime.error)
             ELSE IF ~rest.ok THEN rest
             ELSE Ok(<<[mime_type |-> mime.value,
                        data |-> Base64(FileContent(Head(paths)))]>> \o rest.value)

\* Content::new_user_text: one part per attachment, then the text
Content_new_user_text(text, datas) ==
    [role |-> "User",
     parts |-> [i \in 1..Len(datas) |-> Part(None, Some(datas[i]), None, None)]
               \o <<Part(Some(text), None, None, None)>>]

Content_new_function_response(results) ==
    [role |-> "User",
     parts |-> [i \in 1..Len(results) |->
                   Part(None, None, None,
                        Some([name |-> results[i].name, response |-> results[i].value]))]]

\* mutant: the tool definitions survive an attachment
add_user_text_tools_keep(current, datas) == current

\* mutant: a user message without attachments brings the tools back
add_user_text_tools_restore(current, datas) ==
    IF datas # <<>> THEN None ELSE Some(<<RegisteredName>>)

\* add_user_text: function call is not supported with inline data
add_user_text_tools(current, datas) ==
    IF datas # <<>> THEN None ELSE current

GeminiUsage == [prompt_tokens |-> 10, completion_tokens |-> 5]

\* the attachments of a Gemini user message
GeminiFileLists == SeqsUpTo({"photo.jpg", "archive.zip"}, MaxFiles)

\* what a request comes back with: the candidate's content, or a fault
GeminiResponses ==
    {[fault |-> "none", parts |-> <<Part(Some("4"), None, None, None)>>,
      usage |-> GeminiUsage]}
    \cup {[fault |-> "none",
           parts |-> <<Part(None, None, Some([name |-> n, args |-> ValidArguments]), None)>>,
           usage |-> GeminiUsage] : n \in Names}
    \cup {[fault |-> f, parts |-> <<>>, usage |-> NoUsage] : f \in {"send", "status"}}

\* the function calls of the candidate's parts; the id is the part's position
GeminiFunctions(parts) ==
    LET at == {i \in 1..Len(parts) : IsSome(parts[i].function_call)}
        payload(i) == [id |-> ToString(i - 1), name |-> Unwrap(parts[i].function_call).name,
                       value |-> Unwrap(parts[i].function_call).args]
    IN  SelectSeq([i \in 1..Len(parts) |->
                      IF i \in at THEN payload(i) ELSE [id |-> "", name |-> "", value |-> ""]],
                  LAMBDA f : f.name # "")

InitGemini ==
    /\ variant = "Gemini"
    /\ implementations \in {{}, {RegisteredName}}
    /\ messages = <<>>
    \* Gemini::new: google_search_retrieval when there are no functions
    /\ tools = IF implementations = {} THEN Some(<<"google_search_retrieval">>)
               ELSE Some(<<RegisteredName>>)
    /\ usage = NoUsage
    /\ pc = "idle"
    /\ requests = 0
    /\ response = None
    /\ functions = <<>>
    /\ result = NoResult
    /\ failure = "none"
    /\ before = [messages |-> <<>>, tools |-> None]
    /\ turns = <<>>
    /\ start = <<>>
    /\ pending = None
    /\ users = 0
    /\ body = <<>>
    /\ pos = 0
    /\ buffer = <<>>
    /\ choice = None
    /\ outbox = <<>>
    /\ channel = <<>>
    /\ received = <<>>
    /\ ssePc = "idle"
    /\ doneRead = None
    /\ wasFull = FALSE
    /\ InitExt

\* Gemini::add_user_text(text, files), between two calls of generate()
GeminiAddUserText ==
    /\ variant = "Gemini"
    /\ pc \in {"idle", "done"}
    /\ users <= MaxUsers
    /\ users' = users + 1
    /\ \E paths \in GeminiFileLists, text \in UserTexts :
          LET data == inline_datas(paths)
          IN  /\ files' = paths
              /\ attached' = data
              /\ IF data.ok
                 THEN /\ tools' = add_user_text_tools(tools, data.value)
                      /\ messages' = Append(messages, Content_new_user_text(text, data.value))
                 ELSE UNCHANGED <<tools, messages>>
    /\ UNCHANGED <<variant, implementations, usage, pc, requests, response, functions,
                   result, failure, before, turns, start, pending>>
    /\ UNCHANGED <<sseVars, sessionVars, concVars, pureVars>>

\* Gemini::generate: spawn process()
GeminiGenerate ==
    /\ variant = "Gemini"
    /\ pc \in {"idle", "done"}
    /\ generates <= MaxGenerates
    /\ generates' = generates + 1
    /\ pc' = "call_api"
    /\ requests' = 0
    /\ start' = messages
    /\ turns' = <<>>
    /\ failure' = "none"
    /\ result' = NoResult
    /\ UNCHANGED <<variant, implementations, messages, tools, usage, response, functions,
                   before, pending, users>>
    /\ UNCHANGED <<sseVars, poisoned, systems, concVars, fileVars, pureVars>>

\* call_api: the request carries the contents and the tools of the context
GeminiCallApi ==
    /\ variant = "Gemini"
    /\ pc = "call_api"
    /\ requests < MaxRequests
    /\ requests' = requests + 1
    /\ before' = [messages |-> messages, tools |-> tools]
    /\ pc' = "receive"
    /\ UNCHANGED <<variant, implementations, messages, tools, usage, response, functions,
                   result, failure, turns, start, pending, users>>
    /\ UNCHANGED <<sseVars, extVars>>

\* the rest of one round of process(): the response, the candidate's content,
\* the function calls and their response; an Err ends the spawned task
GeminiProcess ==
    /\ variant = "Gemini"
    /\ pc = "receive"
    /\ \E resp \in GeminiResponses :
          IF resp.fault # "none"
          THEN /\ failure' = resp.fault
               /\ Finish("StreamEnd", None)
               /\ UNCHANGED <<messages, usage, turns>>
          ELSE LET payloads == GeminiFunctions(resp.parts)
                   results == call(implementations, payloads)
                   content == [role |-> "Model", parts |-> resp.parts]
               IN  /\ usage' = [prompt_tokens |-> usage.prompt_tokens + resp.usage.prompt_tokens,
                                completion_tokens |->
                                    usage.completion_tokens + resp.usage.completion_tokens]
                   /\ turns' = Append(turns, resp)
                   /\ IF payloads = <<>>
                      THEN /\ messages' = Append(messages, content)
                           /\ failure' = failure
                           /\ Finish("Ok", None)
                      ELSE IF ~results.ok
                      THEN /\ messages' = Append(messages, content)
                           /\ failure' = results.error
                           /\ Finish("StreamEnd", None)
                      ELSE /\ messages' = messages \o
                                  <<content, Content_new_function_response(results.value)>>
                           /\ failure' = failure
                           /\ pc' = "call_api"
                           /\ result' = result
    /\ UNCHANGED <<variant, implementations, tools, requests, response, functions,
                   before, start, pending, users>>
    /\ UNCHANGED <<sseVars, extVars>>

NextGemini ==
    \/ GeminiAddUserText
    \/ GeminiGenerate
    \/ GeminiCallApi
    \/ GeminiProcess

SpecGemini == InitGemini /\ [][NextGemini]_vars

----------------------------------------------------------------------------
(* command/complete.rs: parse_option on a header line *)

\* the texts a header line is put together from, joined by ", "
Pieces == {"# system", "temperature=2.0", "temperature=0.95", "xtemperature=12.50",
           "temperature=2", "temperature=.5", "top_p=0.95"}

RECURSIVE Join(_)
Join(ps) ==
    IF ps = <<>> THEN ""
    ELSE IF Len(ps) = 1 THEN ps[1]
    ELSE ps[1] \o ", " \o Join(Tail(ps))

IsDigit(c) == c \in {"0", "1", "2", "3", "4", "5", "6", "7", "8", "9"}

\* \d+ at position i: how many digits follow, taken greedily
RECURSIVE Digits(_, _)
Digits(text, i) ==
    IF i <= Len(text) /\ IsDigit(SubSeq(text, i, i)) THEN 1 + Digits(text, i + 1) ELSE 0

\* temperature=(\d+\.\d+) at position i: the text of the capture group
TemperatureAt(text, i) ==
    LET key == "temperature="
        from == i + Len(key)
        whole == Digits(text, from)
        fraction == Digits(text, from + whole + 1)
    IN  IF /\ i + Len(key) - 1 <= Len(text)
           /\ SubSeq(text, i, from - 1) = key
           /\ whole > 0
           /\ from + whole <= Len(text)
           /\ SubSeq(text, from + whole, from + whole) = "."
           /\ fraction > 0
        THEN Some(SubSeq(text, from, from + whole + fraction))
        ELSE None

\* Regex::captures of .*temperature=(\d+\.\d+).* : the leading .* is greedy,
\* so the match is the one that starts last
captures(text) ==
    LET at == {i \in 1..Len(text) : IsSome(TemperatureAt(text, i))}
    IN  IF at = {} THEN None
        ELSE TemperatureAt(text, CHOOSE i \in at : \A j \in at : j <= i)

DigitValue(c) == CHOOSE d \in 0..9 : ToString(d) = c

RECURSIVE Natural(_)
Natural(text) ==
    IF text = "" THEN 0
    ELSE 10 * Natural(SubSeq(text, 1, Len(text) - 1))
         + DigitValue(SubSeq(text, Len(text), Len(text)))

RECURSIVE Normal(_, _)
Normal(mantissa, scale) ==
    IF scale > 0 /\ mantissa % 10 = 0 THEN Normal(mantissa \div 10, scale - 1)
    ELSE [mantissa |-> mantissa, scale |-> scale]

\* f32::from_str of digits.digits: the number mantissa / 10^scale
from_str(text) ==
    LET whole == Digits(text, 1)
        fraction == Len(text) - whole - 1
    IN  Normal(Natural(SubSeq(text, 1, whole) \o SubSeq(text, whole + 2, Len(text))), fraction)

\* mutant: the token has to open the line
parse_option_anchored(text) ==
    IF IsSome(TemperatureAt(text, 1)) THEN Some(from_str(Unwrap(TemperatureAt(text, 1))))
    ELSE None

parse_option(text) ==
    IF IsSome(captures(text)) THEN Some(from_str(Unwrap(captures(text)))) ELSE None

InitParse ==
    /\ Init
    /\ variant = "AgentGenerate"
    /\ implementations = {}

\* the prompt file's next header line
ReadLine ==
    /\ pieces = <<>>
    /\ \E ps \in SeqsUpTo(Pieces, MaxPieces) \ {<<>>} :
          /\ pieces' = ps
          /\ line' = Join(ps)
    /\ option' = None
    /\ UNCHANGED <<engineVars, sseVars, sessionVars, concVars, fileVars, stepVars, toolVars>>

ParseOption ==
    /\ option = None
    /\ option' = Some(parse_option(line))
    /\ UNCHANGED <<line, pieces>>
    /\ UNCHANGED <<engineVars, sseVars, sessionVars, concVars, fileVars, stepVars, toolVars>>

NextParse ==
    \/ ReadLine
    \/ ParseOption

SpecParse == InitParse /\ [][NextParse]_vars

----------------------------------------------------------------------------
(* src/gcloud/vertex.rs: read_response_stream and Vertex::process_response *)

\* one candidate of a GenerateContentResponse: its content (Option) with the
\* first part's text and function call
Candidate(content) == [content |-> content]
VertexPart(text, function_call) == [text |-> text, function_call |-> function_call]
GenerateContentResponse(candidates, usage_metadata) ==
    [candidates |-> candidates, usage_metadata |-> usage_metadata]

\* the two bytes of a character outside ASCII, and the character they encode
LeadByte == "<C3>"
ContinuationByte == "<A9>"
AccentedChar == "<U+00E9>"

\* the frames the provider sends, each as the pieces of its bytes that a
\* chunk boundary may fall between
VertexFrames ==
    {<<"{text:a", "}">>,
     <<"{text:b,", "usage:10,5}">>,
     <<"{text:", LeadByte, ContinuationByte, "}">>,
     <<"{candidates:[],usage:8,20}">>,
     <<"{call:get_random_number}">>,
     <<"{finish:SAFETY}">>,
     <<"{error:1}">>}

\* std::str::from_utf8(&chunk): the text of the bytes, or an error when a
\* character of the chunk is incomplete
RECURSIVE from_utf8(_)
from_utf8(chunk) ==
    IF chunk = <<>> THEN Ok(<<>>)
    ELSE IF chunk[1] = ContinuationByte THEN Err("invalid utf-8")
    ELSE IF chunk[1] = LeadByte
    THEN IF Len(chunk) >= 2 /\ chunk[2] = ContinuationByte
         THEN LET rest == from_utf8(SubSeq(chunk, 3, Len(chunk)))
              IN  IF rest.ok THEN Ok(<<AccentedChar>> \o rest.value) ELSE rest
         ELSE Err("invalid utf-8")
    ELSE LET rest == from_utf8(Tail(chunk))
         IN  IF rest.ok THEN Ok(<<chunk[1]>> \o rest.value) ELSE rest

\* the documents that are complete JSON values, and what each decodes to as
\* a GenerateContentResponse
VertexJson ==
    [t \in {<<"{text:a", "}">>, <<"{text:b,", "usage:10,5}">>,
            <<"{text:", AccentedChar, "}">>, <<"{candidates:[],usage:8,20}">>,
            <<"{call:get_random_number}">>, <<"{finish:SAFETY}">>, <<"{error:1}">>} |->
        CASE t = <<"{text:a", "}">> ->
                Ok(GenerateContentResponse(
                       <<Candidate(Some(VertexPart(Some("a"), None)))>>, None))
          [] t = <<"{text:b,", "usage:10,5}">> ->
                Ok(GenerateContentResponse(
                       <<Candidate(Some(VertexPart(Some("b"), None)))>>,
                       Some([prompt_tokens |-> 10, completion_tokens |-> 5])))
          [] t = <<"{text:", AccentedChar, "}">> ->
                Ok(GenerateContentResponse(
                       <<Candidate(Some(VertexPart(Some(AccentedChar), None)))>>, None))
          [] t = <<"{candidates:[],usage:8,20}">> ->
                Ok(GenerateContentResponse(
                       <<>>, Some([prompt_tokens |-> 8, completion_tokens |-> 20])))
          [] t = <<"{call:get_random_number}">> ->
                Ok(GenerateContentResponse(
                       <<Candidate(Some(VertexPart(None,
                             Some([name |-> RegisteredName, args |-> ValidArguments]))))>>,
                       None))
          [] t = <<"{finish:SAFETY}">> ->
                Ok(GenerateContentResponse(<<Candidate(None)>>, None))
          [] t = <<"{error:1}">> -> Err("decode")]

\* is_valid_json: the text is one complete JSON value
is_valid_json(text) == text \in DOMAIN VertexJson

\* json::from_json::<GenerateContentResponse>
from_json_response(text) == VertexJson[text]

\* the body of a streamed array: "[" frame "," frame ... "]", or the same cut
\* short by an error of the connection
RECURSIVE VertexWire(_, _)
VertexWire(frames, first) ==
    IF frames = <<>> THEN <<>>
    ELSE <<IF first THEN "[" ELSE ",">> \o frames[1] \o VertexWire(Tail(frames), FALSE)

VertexBodies ==
    {VertexWire(fs, TRUE) \o <<end>> :
        fs \in SeqsUpTo(VertexFrames, MaxVertexFrames) \ {<<>>}, end \in {"]", IoError}}

VertexEvent(type, text, u) == [type |-> type, text |-> text, usage |-> u]

\* Content::new_text(Role::Model, ..) and Content::new_function_call
Content_new_text(role, message) ==
    [role |-> role, parts |-> <<Part(Some(message), None, None, None)>>]
Content_new_function_call(function_call) ==
    [role |-> "Model", parts |-> <<Part(None, None, Some(function_call), None)>>]

\* Vertex::process after call_api: the reader is spawned, process_response
\* starts to receive
InitVertex ==
    /\ variant = "Vertex"
    /\ implementations = {RegisteredName}
    /\ messages = <<Content_new_text("User", "What is 2+2?")>>
    /\ tools = Some(<<RegisteredName>>)
    /\ usage = NoUsage
    /\ pc = "receive"
    /\ requests = 1
    /\ response = None
    /\ functions = <<>>
    /\ result = NoResult
    /\ failure = "none"
    /\ before = [messages |-> messages, tools |-> tools]
    /\ turns = <<>>
    /\ start = messages
    /\ pending = None
    /\ users = 1
    /\ body \in VertexBodies
    /\ pos = 0
    /\ buffer = <<>>
    /\ choice = ""
    /\ outbox = <<>>
    /\ channel = <<>>
    /\ received = <<>>
    /\ ssePc = "next"
    /\ doneRead = None
    /\ wasFull = FALSE
    /\ InitExt

\* the Ok(chunk) arm of read_response_stream: append the chunk's text, parse
\* the buffer without its first character, send the response and clear
read_response_stream(buf, chunk) ==
    LET text == from_utf8(chunk)
        appended == buf \o text.value
    IN  IF ~text.ok THEN [pc |-> "panicked", buffer |-> buf, sent |-> <<>>]
        ELSE IF ~is_valid_json(Tail(appended))
        THEN [pc |-> "next", buffer |-> appended, sent |-> <<>>]
        ELSE IF ~from_json_response(Tail(appended)).ok
        THEN [pc |-> "failed", buffer |-> appended, sent |-> <<>>]
        ELSE [pc |-> "next", buffer |-> <<>>,
              sent |-> <<from_json_response(Tail(appended)).value>>]

\* read_response_stream: await the next chunk of the body and handle it, up
\* to the next await
VertexReadChunk ==
    /\ variant = "Vertex"
    /\ ssePc = "next"
    /\ outbox = <<>>
    /\ IF pos = Len(body)
       THEN /\ ssePc' = "returned"
            /\ UNCHANGED <<pos, buffer, outbox>>
       ELSE IF body[pos + 1] = IoError
       THEN /\ ssePc' = "failed"
            /\ pos' = pos + 1
            /\ UNCHANGED <<buffer, outbox>>
       ELSE \E n \in 1..MaxRead :
                /\ pos + n <= Len(body)
                /\ \A i \in (pos + 1)..(pos + n) : body[i] # IoError
                /\ LET out == read_response_stream(buffer, SubSeq(body, pos + 1, pos + n))
                   IN  /\ pos' = pos + n
                       /\ ssePc' = out.pc
                       /\ buffer' = out.buffer
                       /\ outbox' = out.sent
    /\ UNCHANGED <<body, choice, channel, received, doneRead, wasFull>>
    /\ UNCHANGED engineVars
    /\ UNCHANGED extVars

\* tx.send(content).await?: the response enters the channel when there is
\* room; the send fails when process_response has returned and dropped rx
VertexSend ==
    /\ variant = "Vertex"
    /\ outbox # <<>>
    /\ IF pc = "receive"
       THEN /\ Len(channel) < ChannelCapacity
            /\ channel' = tx_send(channel, Head(outbox))
            /\ outbox' = Tail(outbox)
            /\ UNCHANGED ssePc
       ELSE /\ ssePc' = "failed"
            /\ outbox' = <<>>
            /\ UNCHANGED channel
    /\ wasFull' = (wasFull \/ Len(channel') = ChannelCapacity)
    /\ UNCHANGED <<body, pos, buffer, choice, received, doneRead>>
    /\ UNCHANGED engineVars
    /\ UNCHANGED extVars

\* self.usage.request_tokens += ..; self.usage.response_tokens += ..
add_usage(total, usage_metadata) ==
    IF IsSome(usage_metadata)
    THEN [prompt_tokens |-> total.prompt_tokens + Unwrap(usage_metadata).prompt_tokens,
          completion_tokens |-> total.completion_tokens
                                + Unwrap(usage_metadata).completion_tokens]
    ELSE total

\* process_response: one rx.recv().await and what follows it, up to the next
\* await; after the loop, the model message and ChatEvent::End, then
\* try_join!(handle)? of process
VertexProcessResponse ==
    /\ variant = "Vertex"
    /\ pc = "receive"
    /\ IF channel # <<>>
       THEN LET frame == Head(channel)
            IN  /\ channel' = Tail(channel)
                /\ usage' = add_usage(usage, frame.usage_metadata)
                /\ turns' = Append(turns, frame)
                /\ IF frame.candidates = <<>>
                   THEN /\ pc' = "panicked"
                        /\ result' = [kind |-> "Panic", value |-> Some("unwrap on None")]
                        /\ failure' = "panic"
                        /\ UNCHANGED <<messages, choice, received>>
                   ELSE LET content == frame.candidates[1].content
                        IN  IF ~IsSome(content)
                            THEN /\ received' = Append(received,
                                        VertexEvent("Error", "response ended", NoUsage))
                                 /\ UNCHANGED <<messages, choice, pc, result, failure>>
                            ELSE IF IsSome(Unwrap(content).function_call)
                            THEN /\ messages' = Append(messages,
                                        Content_new_function_call(
                                            Unwrap(Unwrap(content).function_call)))
                                 /\ pc' = "call"
                                 /\ result' = [kind |-> "Ok",
                                               value |-> Unwrap(content).function_call]
                                 /\ UNCHANGED <<choice, received, failure>>
                            ELSE IF IsSome(Unwrap(content).text)
                            THEN /\ choice' = choice \o Unwrap(Unwrap(content).text)
                                 /\ received' = Append(received,
                                        VertexEvent("Delta", Unwrap(Unwrap(content).text),
                                                    NoUsage))
                                 /\ UNCHANGED <<messages, pc, result, failure>>
                            ELSE UNCHANGED <<messages, choice, received, pc, result, failure>>
       ELSE /\ outbox = <<>>
            /\ ssePc \in {"returned", "failed", "panicked"}
            /\ messages' = IF choice # ""
                           THEN Append(messages, Content_new_text("Model", choice))
                           ELSE messages
            /\ received' = Append(received, VertexEvent("End", "", usage))
            /\ usage' = NoUsage
            /\ pc' = "done"
            /\ result' = IF ssePc = "panicked"
                         THEN [kind |-> "Err", value |-> Some("task panicked")]
                         ELSE [kind |-> "Ok", value |-> None]
            /\ failure' = IF ssePc = "returned" THEN "none" ELSE ssePc
            /\ UNCHANGED <<channel, turns, choice>>
    /\ UNCHANGED <<variant, implementations, tools, requests, response, functions,
                   before, start, pending, users>>
    /\ UNCHANGED <<body, pos, buffer, outbox, ssePc, doneRead, wasFull>>
    /\ UNCHANGED extVars

NextVertex ==
    \/ VertexReadChunk
    \/ VertexSend
    \/ VertexProcessResponse

SpecVertex == InitVertex /\ [][NextVertex]_vars

----------------------------------------------------------------------------
(* One tool-calling turn statement by statement: process_chat_response of   *)
(* lib/agent and lib/openai under the session Mutex, ChatGPT::process of    *)
(* azure, ChatGPT::chat of openai                                           *)

StepVariants == {"AgentStream", "LibStream", "Azure", "OpenAI"}
Locking == {"AgentStream", "LibStream"}

Statement(op, arg) == [op |-> op, arg |-> arg]
Event(e, arg) == [e |-> e, arg |-> arg]

\* what a request comes back with: a text, or a batch of calls
StepToolCalls ==
    {[id |-> "call_1", name |-> RegisteredName, arguments |-> ValidArguments],
     [id |-> "call_2", name |-> "unknown", arguments |-> ValidArguments],
     [id |-> "call_1", name |-> RegisteredName, arguments |-> InvalidArguments],
     [id |-> "call_2", name |-> RegisteredName, arguments |-> PanicArguments]}

StepResponses ==
    {[content |-> Some("4"), tool_calls |-> None]}
    \cup {[content |-> None, tool_calls |-> Some(b)] :
             b \in SeqsUpTo(StepToolCalls, MaxCalls) \ {<<>>}}

\* mutant: the tool-call record is appended after the implementations ran
process_statements_record_late(v, resp, turn) ==
    IF ~IsSome(resp.tool_calls)
    THEN IF v \in Locking
         THEN <<Statement("Lock", 0), Statement("Text", 0), Statement("Unlock", 0)>>
         ELSE <<Statement("Text", 0)>>
    ELSE LET n == Len(Unwrap(resp.tool_calls))
             each(op) == [i \in 1..n |-> Statement(op, i)]
         IN  IF v \in Locking
             THEN <<Statement("Lock", 0), Statement("Parse", 0)>>
                  \o each("Call") \o <<Statement("Record", 0)>> \o each("Result")
                  \o <<Statement("Unlock", 0)>>
             ELSE IF v = "Azure"
             THEN <<Statement("Parse", 0), Statement("Lookup", 0)>>
                  \o each("Spawn") \o <<Statement("Join", 0), Statement("Record", 0)>>
                  \o each("Result")
             ELSE IF turn = 1
             THEN each("Spawn") \o <<Statement("Join", 0), Statement("Record", 0)>>
                  \o each("Result")
             ELSE <<Statement("Record", 0)>>

\* mutant: the Mutex is released while the implementations run
process_statements_unlocked_calls(v, resp, turn) ==
    IF ~IsSome(resp.tool_calls)
    THEN IF v \in Locking
         THEN <<Statement("Lock", 0), Statement("Text", 0), Statement("Unlock", 0)>>
         ELSE <<Statement("Text", 0)>>
    ELSE LET n == Len(Unwrap(resp.tool_calls))
             each(op) == [i \in 1..n |-> Statement(op, i)]
         IN  IF v \in Locking
             THEN <<Statement("Lock", 0), Statement("Parse", 0), Statement("Record", 0),
                    Statement("Unlock", 0)>>
                  \o each("Call") \o <<Statement("Lock", 0)>> \o each("Result")
                  \o <<Statement("Unlock", 0)>>
             ELSE IF v = "Azure"
             THEN <<Statement("Parse", 0), Statement("Record", 0), Statement("Lookup", 0)>>
                  \o each("Spawn") \o <<Statement("Join", 0)>> \o each("Result")
             ELSE IF turn = 1
             THEN <<Statement("Record", 0)>> \o each("Spawn") \o <<Statement("Join", 0)>>
                  \o each("Result")
             ELSE <<Statement("Record", 0)>>

\* the statements that handle one response, in the order of the source:
\*   lib/agent, lib/openai  lock; from_json of every call; push the record;
\*                          FunctionStore::call, one call after the other;
\*                          push every result; the guard drops
\*   azure                  from_json of every call; add_message(record);
\*                          call_functions: get() of every name, spawn every
\*                          call, join; add_message of every result
\*   openai                 process() pushes the record; chat(): get_function
\*                          and spawn for every call, join_all; push every
\*                          result; the calls of the second process() of
\*                          chat() are recorded and dropped
process_statements(v, resp, turn) ==
    IF ~IsSome(resp.tool_calls)
    THEN IF v \in Locking
         THEN <<Statement("Lock", 0), Statement("Text", 0), Statement("Unlock", 0)>>
         ELSE <<Statement("Text", 0)>>
    ELSE LET n == Len(Unwrap(resp.tool_calls))
             each(op) == [i \in 1..n |-> Statement(op, i)]
         IN  IF v \in Locking
             THEN <<Statement("Lock", 0), Statement("Parse", 0), Statement("Record", 0)>>
                  \o each("Call") \o each("Result") \o <<Statement("Unlock", 0)>>
             ELSE IF v = "Azure"
             THEN <<Statement("Parse", 0), Statement("Record", 0), Statement("Lookup", 0)>>
                  \o each("Spawn") \o <<Statement("Join", 0)>> \o each("Result")
             ELSE IF turn = 1
             THEN <<Statement("Record", 0)>> \o each("Spawn") \o <<Statement("Join", 0)>>
                  \o each("Result")
             ELSE <<Statement("Record", 0)>>

InitSteps ==
    /\ variant \in StepVariants
    /\ implementations = {RegisteredName}
    /\ messages = <<new_message("User", "What is 2+2?")>>
    /\ tools = Some(<<RegisteredName>>)
    /\ usage = NoUsage
    /\ pc = "call_api"
    /\ requests = 0
    /\ response = None
    /\ functions = <<>>
    /\ result = NoResult
    /\ failure = "none"
    /\ before = [messages |-> <<>>, tools |-> None]
    /\ turns = <<>>
    /\ start = messages
    /\ pending = None
    /\ users = 1
    /\ body = <<>>
    /\ pos = 0
    /\ buffer = <<>>
    /\ choice = None
    /\ outbox = <<>>
    /\ channel = <<>>
    /\ received = <<>>
    /\ ssePc = "none"
    /\ doneRead = None
    /\ wasFull = FALSE
    /\ InitExt

StepCalls == Unwrap(Unwrap(response).tool_calls)
Current == plan[step]
Running == pc = "process" /\ step \in 1..Len(plan)

\* the statement ran: go to the next one; after the last, a text ends the
\* loop and a tool turn goes back to call_api
StepOn ==
    /\ step' = step + 1
    /\ pc' = IF step < Len(plan) THEN pc
             ELSE IF IsSome(Unwrap(response).tool_calls)
                     /\ ~(variant = "OpenAI" /\ requests = 2)
             THEN "call_api" ELSE "done"

\* an Err leaves through ?: a guard that is held drops
StepErr(error) ==
    /\ pc' = "failed"
    /\ failure' = error
    /\ lock' = IF lock = "loop" THEN "none" ELSE lock

StepFrame == <<variant, implementations, tools, usage, functions, result, before, turns,
               start, pending>>

StepRest == UNCHANGED <<StepFrame, sseVars, generates, systems, concVars, fileVars, parseVars,
                        toolVars>>

\* call_api / openai_request: the request is built from the log (under the
\* Mutex where there is one) and the response comes back
StepRequest ==
    /\ pc = "call_api"
    /\ requests < MaxRequests
    /\ variant \in Locking => lock # "loop"
    /\ IF lock = "poisoned"
       THEN /\ pc' = "failed"
            /\ failure' = "poisoned"
            /\ UNCHANGED <<requests, response, plan, step, tasks, finished, trace>>
       ELSE \E resp \in StepResponses :
               /\ requests' = requests + 1
               /\ response' = Some(resp)
               /\ plan' = process_statements(variant, resp, requests + 1)
               /\ step' = 1
               /\ tasks' = IF IsSome(resp.tool_calls)
                           THEN [i \in 1..Len(Unwrap(resp.tool_calls)) |-> "none"]
                           ELSE <<>>
               /\ finished' = <<>>
               /\ trace' = Append(trace, Event("Request", requests + 1))
               /\ pc' = "process"
               /\ UNCHANGED failure
    /\ UNCHANGED <<messages, users, lock, poisoned>>
    /\ StepRest

\* session.lock().unwrap() / context.lock().unwrap()
StepLock ==
    /\ Running
    /\ Current.op = "Lock"
    /\ lock # "loop"
    /\ IF lock = "poisoned"
       THEN /\ pc' = "failed"
            /\ failure' = "poisoned"
            /\ UNCHANGED <<lock, step>>
       ELSE /\ lock' = "loop"
            /\ StepOn
            /\ UNCHANGED failure
    /\ UNCHANGED <<messages, requests, response, users, poisoned, plan, tasks, finished,
                   trace>>
    /\ StepRest

\* json::from_json(&call.function.arguments)? for every call
StepParse ==
    /\ Running
    /\ Current.op = "Parse"
    /\ IF \E i \in 1..Len(StepCalls) : ~from_json(StepCalls[i].arguments).ok
       THEN StepErr("arguments") /\ UNCHANGED step
       ELSE StepOn /\ UNCHANGED <<failure, lock>>
    /\ UNCHANGED <<messages, requests, response, users, poisoned, plan, tasks, finished,
                   trace>>
    /\ StepRest

\* messages.push(ChatRequestMessage::new_function_call(calls))
StepRecord ==
    /\ Running
    /\ Current.op = "Record"
    /\ messages' = Append(messages, new_function_call(StepCalls))
    /\ trace' = Append(trace, Event("Record", 0))
    /\ StepOn
    /\ UNCHANGED <<requests, response, users, failure, poisoned, lock, plan, tasks,
                   finished>>
    /\ StepRest

\* the else branch: push the Assistant message of the content
StepText ==
    /\ Running
    /\ Current.op = "Text"
    /\ messages' = Append(messages, new_message("Assistant", Unwrap(Unwrap(response).content)))
    /\ StepOn
    /\ UNCHANGED <<requests, response, users, failure, poisoned, lock, plan, tasks,
                   finished, trace>>
    /\ StepRest

\* FunctionStore::call, one round of its loop: look the name up and run the
\* implementation to its end
StepCall ==
    /\ Running
    /\ Current.op = "Call"
    /\ LET i == Current.arg
           c == StepCalls[i]
       IN  IF c.name \notin implementations
           THEN /\ StepErr(NotFound)
                /\ UNCHANGED <<step, poisoned, tasks, finished, trace>>
           ELSE IF ImplementationPanics(c.name, c.arguments)
           THEN /\ pc' = "failed"
                /\ failure' = Panicked
                /\ lock' = IF lock = "loop" THEN "poisoned" ELSE lock
                /\ poisoned' = (poisoned \/ lock = "loop")
                /\ trace' = Append(trace, Event("Invoke", i))
                /\ UNCHANGED <<step, tasks, finished>>
           ELSE /\ tasks' = [tasks EXCEPT ![i] = "finished"]
                /\ finished' = Append(finished, i)
                /\ trace' = trace \o <<Event("Invoke", i), Event("Finish", i)>>
                /\ StepOn
                /\ UNCHANGED <<failure, lock, poisoned>>
    /\ UNCHANGED <<messages, requests, response, users, plan>>
    /\ StepRest

\* call_functions of azure: get() of every name before a call is spawned
StepLookup ==
    /\ Running
    /\ Current.op = "Lookup"
    /\ IF \E i \in 1..Len(StepCalls) : StepCalls[i].name \notin implementations
       THEN StepErr(NotFound) /\ UNCHANGED step
       ELSE StepOn /\ UNCHANGED <<failure, lock>>
    /\ UNCHANGED <<messages, requests, response, users, poisoned, plan, tasks, finished,
                   trace>>
    /\ StepRest

\* tokio::spawn / JoinSet::spawn of one call; openai looks the name up first
StepSpawn ==
    /\ Running
    /\ Current.op = "Spawn"
    /\ LET i == Current.arg
       IN  IF variant = "OpenAI" /\ StepCalls[i].name \notin implementations
           THEN /\ StepErr(NotFound)
                /\ UNCHANGED <<step, tasks, trace>>
           ELSE /\ tasks' = [tasks EXCEPT ![i] = "running"]
                /\ trace' = Append(trace, Event("Invoke", i))
                /\ StepOn
                /\ UNCHANGED <<failure, lock>>
    /\ UNCHANGED <<messages, requests, response, users, poisoned, plan, finished>>
    /\ StepRest

\* a spawned implementation comes to its end, or panics; the tasks of a
\* JoinSet that was dropped are aborted, the tasks of openai are detached
TaskFinish ==
    /\ variant = "Azure" => pc = "process"
    /\ \E i \in 1..Len(tasks) :
          /\ tasks[i] = "running"
          /\ LET c == StepCalls[i]
                 panics == \/ ImplementationPanics(c.name, c.arguments)
                           \/ variant = "OpenAI" /\ ~from_json(c.arguments).ok
             IN  tasks' = [tasks EXCEPT ![i] = IF panics THEN "panicked" ELSE "finished"]
          /\ finished' = Append(finished, i)
          /\ trace' = Append(trace, Event("Finish", i))
    /\ UNCHANGED <<messages, requests, response, users, pc, failure, poisoned, lock, plan,
                   step>>
    /\ StepRest

\* join_next / join_all: a JoinError of a task that panicked leaves through ?
StepJoin ==
    /\ Running
    /\ Current.op = "Join"
    /\ IF \E i \in 1..Len(tasks) : tasks[i] = "panicked"
       THEN /\ variant = "OpenAI" => \A i \in 1..Len(tasks) : tasks[i] # "running"
            /\ StepErr(Panicked)
            /\ UNCHANGED step
       ELSE /\ \A i \in 1..Len(tasks) : tasks[i] # "running"
            /\ StepOn
            /\ UNCHANGED <<failure, lock>>
    /\ UNCHANGED <<messages, requests, response, users, poisoned, plan, tasks, finished,
                   trace>>
    /\ StepRest

\* push of one new_function_response: in the order of the calls, on azure in
\* the order the implementations returned
StepResult ==
    /\ Running
    /\ Current.op = "Result"
    /\ LET i == IF variant = "Azure" THEN finished[Current.arg] ELSE Current.arg
           c == StepCalls[i]
       IN  /\ messages' = Append(messages,
                                 new_function_response(c.id, Implementation(c.name, c.arguments)))
           /\ trace' = Append(trace, Event("Result", i))
    /\ StepOn
    /\ UNCHANGED <<requests, response, users, failure, poisoned, lock, plan, tasks,
                   finished>>
    /\ StepRest

\* the MutexGuard drops at the end of process_chat_response
StepUnlock ==
    /\ Running
    /\ Current.op = "Unlock"
    /\ lock' = "none"
    /\ StepOn
    /\ UNCHANGED <<messages, requests, response, users, failure, poisoned, plan, tasks,
                   finished, trace>>
    /\ StepRest

\* add_user_message / add_assistant_message / Session::add_message of the
\* caller while the loop runs: lock, push, unlock
CallerAddMessage ==
    /\ variant \in Locking
    /\ users <= MaxUsers
    /\ lock = "none"
    /\ users' = users + 1
    /\ messages' = Append(messages, new_message("User", "And 3+3?"))
    /\ UNCHANGED <<requests, response, pc, failure, poisoned, stepVars>>
    /\ StepRest

NextSteps ==
    \/ StepRequest
    \/ StepLock
    \/ StepParse
    \/ StepRecord
    \/ StepText
    \/ StepCall
    \/ StepLookup
    \/ StepSpawn
    \/ TaskFinish
    \/ StepJoin
    \/ StepResult
    \/ StepUnlock
    \/ CallerAddMessage

SpecSteps == InitSteps /\ [][NextSteps]_vars

----------------------------------------------------------------------------
(* The tools of a request *)

ToolVariants == {"AgentGenerate", "AgentStream", "LibGenerate", "LibStream"}

\* FunctionStore::definitions of lib/agent: one definition for each name the
\* session enables, in the order of the list; no list, no tools.  A name that
\* is not in the store panics in unwrap() before any request is built, so the
\* lists here hold stored names only.
definitions(store, enabled) ==
    IF IsSome(enabled)
    THEN Some(Unwrap(enabled))
    ELSE None

\* FunctionStore::definitions of lib/openai: None for an empty store
store_definitions(store) ==
    IF store = {}
    THEN None
    ELSE Some(<<RegisteredName>>)

\* openai_request / call_api: tool_choice: tools.is_some().then_some("auto")
tool_choice(definitions_sent) ==
    IF IsSome(definitions_sent) THEN Some("auto") ELSE None

\* the values of Session.functions a caller can set over a store
EnabledLists(store) ==
    {None, Some(<<>>)} \cup {Some(<<name>>) : name \in store}

InitTools ==
    /\ variant \in ToolVariants
    /\ implementations \in {{}, {RegisteredName}}
    /\ session_functions \in IF variant \in {"AgentGenerate", "AgentStream"}
                             THEN EnabledLists(implementations)
                             ELSE {None}
    /\ tools = IF variant \in {"AgentGenerate", "AgentStream"}
               THEN definitions(implementations, session_functions)
               ELSE store_definitions(implementations)
    /\ messages = <<>>
    /\ usage = NoUsage
    /\ pc = "idle"
    /\ requests = 0
    /\ response = None
    /\ functions = <<>>
    /\ result = NoResult
    /\ failure = "none"
    /\ before = [messages |-> <<>>, tools |-> None]
    /\ turns = <<>>
    /\ start = <<>>
    /\ pending = None
    /\ users = 0
    /\ body = <<>>
    /\ pos = 0
    /\ buffer = <<>>
    /\ choice = None
    /\ outbox = <<>>
    /\ channel = <<>>
    /\ received = <<>>
    /\ ssePc = "none"
    /\ doneRead = None
    /\ wasFull = FALSE
    /\ poisoned = FALSE
    /\ generates = 0
    /\ systems = 0
    /\ loops = <<>>
    /\ foreign = FALSE
    /\ files = <<>>
    /\ attached = Err("none")
    /\ InitLocal

NextTools ==
    \/ AddUserMessage
    \/ Generate
    \/ CallApi
    \/ ReceiveFault
    \/ ReceiveResponse
    \/ ProcessChatResponse

\* the turn loop of the library revisions over every setting of the tools
SpecTools == InitTools /\ [][NextTools]_vars

----------------------------------------------------------------------------
(* Properties of the turn loop *)

LoopVariants == {"AgentGenerate", "AgentStream", "LibGenerate", "LibStream", "Azure"}

Last(s) == s[Len(s)]
IsToolTurn(resp) == IsSome(resp.tool_calls)
OnlyToolTurns(ts) == \A i \in 1..Len(ts) : IsToolTurn(ts[i])
Succeeded == pc = "done" /\ failure = "none"

\* C1: in the turn loop of generate() and process(), every completed tool
\* turn is followed by exactly one more request and nothing but tool turns
\* keeps the loop going; a turn with text and no tool calls ends the loop:
\* its text is the last Assistant message of the log and the value returned,
\* and no request follows it.
C1_TurnLoop ==
    variant \in LoopVariants =>
        /\ pc = "call_api" => requests = Len(turns) /\ OnlyToolTurns(turns)
        /\ pc \in {"receive", "process", "dispatch"} =>
              requests = Len(turns) + 1 /\ OnlyToolTurns(turns)
        /\ (pc = "done" /\ turns # <<>> /\ ~IsToolTurn(Last(turns))) =>
              /\ requests = Len(turns)
              /\ OnlyToolTurns(SubSeq(turns, 1, Len(turns) - 1))
              /\ Last(messages) = new_message("Assistant", Unwrap(Last(turns).content))
              /\ variant \notin Streaming =>
                    result = [kind |-> "Ok", value |-> Last(turns).content]

C1_Witness ==
    /\ variant \in LoopVariants
    /\ pc = "done"
    /\ Len(turns) = 2
    /\ IsToolTurn(turns[1])
    /\ turns[2].content = Some("Here: 7")
    /\ requests = 2

MessageKind(m) ==
    IF m.role = "Assistant"
    THEN IF IsSome(m.tool_calls) THEN "Assistant(tool_calls)" ELSE "Assistant(text)"
    ELSE m.role

RECURSIVE ExpectedKinds(_)
ExpectedKinds(ts) ==
    IF ts = <<>> THEN <<>>
    ELSE (IF IsToolTurn(ts[1])
          THEN <<"Assistant(tool_calls)">> \o [i \in 1..Len(Unwrap(ts[1].tool_calls)) |-> "Tool"]
          ELSE <<"Assistant(text)">>)
         \o ExpectedKinds(Tail(ts))

\* C2: after a successful generate() started on a log that ends with a User
\* message, the turns were k tool turns and then one text turn, the log kept
\* what it held and grew by exactly one Assistant(tool_calls) message and
\* n_i Tool messages per tool turn, in order, and one Assistant text message
\* at the end: 2 messages for k = 0 on one User message, 4 for one tool turn
\* with one call.
C2_LogExtension ==
    (variant \in LoopVariants /\ Succeeded /\ start # <<>> /\ Last(start).role = "User") =>
        /\ turns # <<>>
        /\ ~IsToolTurn(Last(turns))
        /\ OnlyToolTurns(SubSeq(turns, 1, Len(turns) - 1))
        /\ Len(messages) >= Len(start)
        /\ SubSeq(messages, 1, Len(start)) = start
        /\ [i \in 1..(Len(messages) - Len(start)) |-> MessageKind(messages[Len(start) + i])]
              = ExpectedKinds(turns)
        /\ (Len(start) = 1 /\ Len(turns) = 1) => Len(messages) = 2
        /\ (Len(start) = 1 /\ Len(turns) = 2 /\ Len(Unwrap(turns[1].tool_calls)) = 1) =>
              [i \in 1..Len(messages) |-> MessageKind(messages[i])]
                = <<"User", "Assistant(tool_calls)", "Tool", "Assistant(text)">>

C2_Witness ==
    /\ variant = "LibGenerate"
    /\ Succeeded
    /\ Len(start) = 1
    /\ Len(turns) = 2
    /\ Len(messages) = 4

\* C3: every Tool message follows an Assistant message with tool_calls,
\* separated from it by Tool messages only, and its tool_call_id is the id
\* of one of the calls of that Assistant message.
C3_ToolMessageMatchesCall ==
    \A i \in 1..Len(messages) :
        messages[i].role = "Tool" =>
            \E j \in 1..(i - 1) :
                /\ messages[j].role = "Assistant"
                /\ IsSome(messages[j].tool_calls)
                /\ \A k \in (j + 1)..(i - 1) : messages[k].role = "Tool"
                /\ \E c \in 1..Len(Unwrap(messages[j].tool_calls)) :
                      messages[i].tool_call_id = Some(Unwrap(messages[j].tool_calls)[c].id)

C3_Witness ==
    \E i \in 1..Len(messages) :
        /\ i + 1 <= Len(messages)
        /\ messages[i].role = "Tool"
        /\ messages[i + 1].role = "Tool"
        /\ messages[i].tool_call_id # messages[i + 1].tool_call_id

\* C4: a call in which an error occurred ends with an error the caller
\* observes (an Err result, an error item or event, or a panic that unwinds
\* into the caller), never as a normal completion.
C4_ErrorsReachCaller ==
    (pc = "done" /\ failure # "none") =>
        result.kind \in {"Err", "StreamErr", "OkAfterErrorEvent", "Panic"}

\* C5: a turn that fails on sending, on the status or on decoding the
\* response leaves the log and the tool definitions as they were when the
\* request of that turn was built.
C5_FailedTurnLeavesState ==
    (/\ variant \in {"ChatGPT", "AgentGenerate", "AgentStream", "LibGenerate", "LibStream"}
     /\ pc = "done"
     /\ failure \in {"send", "status", "decode"}) =>
        /\ messages = before.messages
        /\ tools = before.tools

\* C6: the Tool messages of a dispatched turn are one per call of the
\* Assistant tool_calls record, in the order of that record.
C6_ToolMessagesInCallOrder ==
    \A j \in 1..Len(messages) :
        (/\ messages[j].role = "Assistant"
         /\ IsSome(messages[j].tool_calls)
         /\ j < Len(messages)
         /\ messages[j + 1].role = "Tool") =>
            LET calls == Unwrap(messages[j].tool_calls)
            IN  /\ j + Len(calls) <= Len(messages)
                /\ \A i \in 1..Len(calls) :
                      /\ messages[j + i].role = "Tool"
                      /\ messages[j + i].tool_call_id = Some(calls[i].id)
                /\ j + Len(calls) < Len(messages) =>
                      messages[j + Len(calls) + 1].role # "Tool"

RECURSIVE SumUsage(_)
SumUsage(ts) ==
    IF ts = <<>> THEN NoUsage
    ELSE LET rest == SumUsage(Tail(ts))
         IN  [prompt_tokens |-> ts[1].usage.prompt_tokens + rest.prompt_tokens,
              completion_tokens |-> ts[1].usage.completion_tokens + rest.completion_tokens]

\* C7: the usage the session reports after a generate() is the field by
\* field sum of the usage of its turns.
C7_UsageIsSumOfTurns ==
    (variant \in {"LibGenerate", "LibStream"} /\ Succeeded) => usage = SumUsage(turns)

----------------------------------------------------------------------------
(* Properties of one streamed turn *)

FrameOf(data) == from_json_frame(data).value

\* a frame that decodes and carries no tool call
IsTextFrame(data) == from_json_frame(data).ok /\ ~IsSome(FrameOf(data).tool_call)

\* a frame whose delta.content the reader forwards
IsContentFrame(data) ==
    /\ IsTextFrame(data)
    /\ FrameOf(data).has_choice
    /\ IsSome(FrameOf(data).content)

IsStopFrame(data) ==
    /\ IsTextFrame(data)
    /\ FrameOf(data).has_choice
    /\ FrameOf(data).finish_reason = Some("stop")

\* a valid body of text deltas that ends in [DONE]
TextOnlyBody ==
    /\ Len(body) >= 2
    /\ body[Len(body)] = DoneData
    /\ \A i \in 1..(Len(body) - 1) : IsTextFrame(body[i])
    /\ \E i \in 1..(Len(body) - 1) : IsContentFrame(body[i])

\* the concatenation of the frames' delta.content values
RECURSIVE FullText(_)
FullText(frames) ==
    IF frames = <<>> THEN ""
    ELSE (IF IsContentFrame(frames[1]) THEN Unwrap(FrameOf(frames[1]).content) ELSE "")
         \o FullText(Tail(frames))

\* the same, with a line feed after every frame that carries finish_reason stop
RECURSIVE TextWithLineFeeds(_)
TextWithLineFeeds(frames) ==
    IF frames = <<>> THEN ""
    ELSE (IF IsContentFrame(frames[1]) THEN Unwrap(FrameOf(frames[1]).content) ELSE "")
         \o (IF IsStopFrame(frames[1]) THEN "\n" ELSE "")
         \o TextWithLineFeeds(Tail(frames))

\* the turn is over and the listener has taken every item
Delivered == ssePc = "processed" /\ outbox = <<>> /\ channel = <<>>

\* C8 as stated: for a valid text-only body ending in [DONE], the
\* concatenation of the forwarded items equals the concatenation of the
\* frames' delta.content values and the text of the appended Assistant message.
C8_ForwardedEqualsFullText ==
    (variant \in Streaming /\ TextOnlyBody /\ Delivered) =>
        /\ ConcatText(received) = FullText(body)
        /\ Last(messages) = new_message("Assistant", FullText(body))

\* C8 amended: for a valid text-only body ending in [DONE] the turn does not
\* fail; the appended Assistant message is the concatenation of the frames'
\* delta.content values, and the concatenation of the forwarded items is that
\* text with a line feed after each frame that carries finish_reason "stop".
C8_ForwardedIsTextWithLineFeeds ==
    (variant \in Streaming /\ TextOnlyBody) =>
        /\ ssePc \notin {"failed", "panicked"}
        /\ Delivered =>
              /\ ConcatText(received) = TextWithLineFeeds(body)
              /\ Last(messages) = new_message("Assistant", FullText(body))
              /\ Len(messages) = 2

C8_Witness ==
    /\ variant = "AgentStream"
    /\ body = <<"{content:a}", "{content:b,finish:stop}", DoneData>>
    /\ Delivered
    /\ ConcatText(received) = "ab\n"
    /\ Last(messages) = new_message("Assistant", "ab")

\* C9: once a [DONE] frame has been read the reader is finished: it reads no
\* byte after the ones it held when it saw [DONE] and does not await more.
C9_DoneEndsStream ==
    IsSome(doneRead) =>
        /\ pos = Unwrap(doneRead)
        /\ ssePc # "next"

IsFrameDelta(item) == item.type = "Delta" /\ item.text # "\n"

\* the texts of the items that carry a frame's delta
DeltaTexts(items) ==
    LET deltas == SelectSeq(items, IsFrameDelta)
    IN  [i \in 1..Len(deltas) |-> deltas[i].text]

\* the delta.content values of the frames, in the order of the frames
FrameTexts(frames) ==
    LET contents == SelectSeq(frames, IsContentFrame)
    IN  [i \in 1..Len(contents) |-> Unwrap(FrameOf(contents[i]).content)]

\* C10: the deltas the listener has taken, followed by those waiting in the
\* channel and the one the reader is sending, are the deltas of the frames
\* read so far, one item per frame and in the order of the frames; the
\* channel never holds more than its 64 slots.
C10_DeltasInArrivalOrder ==
    variant \in {"AgentStream", "LibStream", "OpenAI"} =>
        /\ Len(channel) <= ChannelCapacity
        /\ DeltaTexts(received \o channel \o outbox) = FrameTexts(SubSeq(body, 1, pos))

C10_Witness ==
    /\ variant = "AgentStream"
    /\ body = LongBody
    /\ wasFull
    /\ ssePc = "returned"
    /\ DeltaTexts(received) = FrameTexts(LongBody)
    /\ Len(received) = LongFrames

----------------------------------------------------------------------------
(* Properties of the session *)

\* C11: at most one turn loop of a session is in flight, and while a loop is
\* in flight nobody else (another loop, add_user_message) writes the log.
C11_OneLoopAtATime ==
    /\ Cardinality({l \in DOMAIN loops : InFlight(l)}) <= 1
    /\ ~foreign

\* the Assistant record at index j names an unknown function, and the
\* implementations of its other calls return
UnknownNameBatch(j) ==
    /\ messages[j].role = "Assistant"
    /\ IsSome(messages[j].tool_calls)
    /\ LET calls == Unwrap(messages[j].tool_calls)
       IN  /\ \E i \in 1..Len(calls) : calls[i].name \notin implementations
           /\ \A i \in 1..Len(calls) : ~ImplementationPanics(calls[i].name, calls[i].arguments)

\* all names of the Assistant record at index j are registered and the
\* implementation of one of its calls panics
PanickingBatch(j) ==
    /\ messages[j].role = "Assistant"
    /\ IsSome(messages[j].tool_calls)
    /\ LET calls == Unwrap(messages[j].tool_calls)
       IN  /\ \A i \in 1..Len(calls) : calls[i].name \in implementations
           /\ \E i \in 1..Len(calls) : ImplementationPanics(calls[i].name, calls[i].arguments)

DispatchVariants == {"AgentGenerate", "AgentStream", "LibGenerate", "LibStream", "Azure"}

C13_FailedImplementationFailsBatch ==
    variant \in DispatchVariants =>
        \A j \in 1..Len(messages) :
            PanickingBatch(j) =>
                /\ j = Len(messages)
                /\ \/ pc = "dispatch"
                   \/ /\ pc = "done"
                      /\ failure = Panicked
                      /\ variant \notin Streaming => result.kind \in {"Err", "Panic"}

C13_Witness ==
    /\ variant = "Azure"
    /\ pc = "done"
    /\ failure = Panicked
    /\ result.kind = "Err"
    /\ PanickingBatch(Len(messages))
    /\ Len(Unwrap(messages[Len(messages)].tool_calls)) = 2
    /\ \E i \in 1..2 :
          LET c == Unwrap(messages[Len(messages)].tool_calls)[i]
          IN  ~ImplementationPanics(c.name, c.arguments)

Contains(text, part) ==
    \E i \in 1..(Len(text) - Len(part) + 1) : SubSeq(text, i, i + Len(part) - 1) = part

C15_SessionUsableAfterFailure ==
    (generates > 0 /\ pc = "done") => requests > 0

\* the indices of the System messages of a log
SystemIndices(log) == {i \in DOMAIN log : log[i].role = "System"}

\* C16: the log holds at most one System message, and a System message it holds
\* is its first message.
C16_OneLeadingSystemMessage ==
    /\ Cardinality(SystemIndices(messages)) <= 1
    /\ SystemIndices(messages) \subseteq {1}

\* log is kept, message by message and index by index, at the start of next
Extends(log, next) ==
    /\ Len(next) >= Len(log)
    /\ SubSeq(next, 1, Len(log)) = log

\* a log without its leading System message
WithoutLeadingSystem(log) ==
    IF log # <<>> /\ log[1].role = "System" THEN Tail(log) ELSE log

\* C17 as stated: every step keeps the messages of the log where they are and
\* only adds messages at the end.
C17_AppendOnly ==
    [][Extends(messages, messages')]_vars

\* C17: every step other than setting the system message keeps the messages of
\* the log where they are and only adds at the end; setting the system message
\* either appends it or puts it at index 0 in place of a leading System message
\* and keeps every other message in order.
C17_AppendOnlyButSystemMessage ==
    [][/\ systems' = systems => Extends(messages, messages')
       /\ systems' # systems =>
            \/ Extends(messages, messages') /\ Len(messages') = Len(messages) + 1
            \/ /\ messages' # <<>>
               /\ messages'[1].role = "System"
               /\ Tail(messages') = WithoutLeadingSystem(messages)]_vars

C17_Witness ==
    /\ variant \in {"LibGenerate", "LibStream", "Azure"}
    /\ systems = MaxSystems
    /\ pc = "done"
    /\ Len(messages) > Len(start)
    /\ Len(start) >= 2

\* a turn that ended with no tool call and no text
EmptyTextTurn(resp) ==
    /\ resp.fault = "none"
    /\ ~IsSome(resp.tool_calls)
    /\ resp.content \in {None, Some("")}

\* C18: a call whose last turn had no tool call and an empty text does not end
\* as a success, and the log does not end with an Assistant message for it.
C18_EmptyTurnIsAnError ==
    (pc = "done" /\ turns # <<>> /\ EmptyTextTurn(Last(turns))) =>
        /\ ~Succeeded
        /\ result.kind # "Ok"
        /\ messages # <<>> => Last(messages).role # "Assistant"

\* text starts with part
StartsWith(text, part) ==
    Len(text) >= Len(part) /\ SubSeq(text, 1, Len(part)) = part

\* text ends with part
EndsWith(text, part) ==
    Len(text) >= Len(part) /\ SubSeq(text, Len(text) - Len(part) + 1, Len(text)) = part

\* the data URI scheme the attachment of this name is to be given
ExpectedScheme(path) ==
    CASE EndsWith(path, ".jpg") -> "data:image/jpeg;base64,"
      [] EndsWith(path, ".png") -> "data:image/png;base64,"
      [] EndsWith(path, ".pdf") -> "data:application/pdf;base64,"
      [] OTHER -> "none"

\* C19: add_user_message gives every jpg, png and pdf attachment the data URI
\* of its type and appends one message; with an attachment of another
\* extension it fails with "not supported extension" and appends nothing.
C19_AttachmentMapping ==
    [][AddUserMessageFiles =>
         IF \A i \in DOMAIN files' : ExpectedScheme(files'[i]) # "none"
         THEN /\ attached'.ok
              /\ Len(attached'.value) = Len(files')
              /\ \A i \in DOMAIN files' :
                    StartsWith(attached'.value[i], ExpectedScheme(files'[i]))
              /\ Len(messages') = Len(messages) + 1
         ELSE (\A i \in DOMAIN files' : files'[i] # "notes") =>
                 /\ ~attached'.ok
                 /\ StartsWith(attached'.error, "not supported extension")
                 /\ messages' = messages]_vars

\* C20: a call does not return while its turns keep asking for tools and the
\* dispatches succeed: a call that returned a success ended on a turn without
\* tool calls, and a call about to send one more request has seen tool turns
\* only.
C20_NoIterationCap ==
    /\ (Succeeded /\ turns # <<>>) => ~IsToolTurn(Last(turns))
    /\ (pc = "call_api" /\ requests > 0) => OnlyToolTurns(turns)

\* the last content of a log that the user wrote: a User content with a text part
UserTextAt(log) == {i \in DOMAIN log : log[i].role = "User" /\
                       \E k \in DOMAIN log[i].parts : IsSome(log[i].parts[k].text)}

HasInlineData(content) == \E k \in DOMAIN content.parts : IsSome(content.parts[k].inline_data)

\* C21: a request of the Gemini variant whose newest user message carries an
\* inline attachment is sent without tool definitions.
C21_NoToolsWithInlineData ==
    (variant = "Gemini" /\ requests > 0 /\ UserTextAt(before.messages) # {}) =>
        LET last == CHOOSE i \in UserTextAt(before.messages) :
                        \A j \in UserTextAt(before.messages) : j <= i
        IN  HasInlineData(before.messages[last]) => before.tools = None

C21_Witness ==
    /\ variant = "Gemini"
    /\ requests = 2
    /\ implementations # {}
    /\ pc = "receive"
    /\ HasInlineData(before.messages[1])
    /\ Len(before.messages) = 3

\* the number a piece names when it holds a token temperature=<digits>.<digits>
PieceTemperature(piece) ==
    CASE piece = "temperature=2.0" -> Some([mantissa |-> 2, scale |-> 0])
      [] piece = "temperature=0.95" -> Some([mantissa |-> 95, scale |-> 2])
      [] piece = "xtemperature=12.50" -> Some([mantissa |-> 125, scale |-> 1])
      [] OTHER -> None

Tokens(ps) == {i \in DOMAIN ps : IsSome(PieceTemperature(ps[i]))}

\* C22: parse_option on a line that holds a token temperature=<digits>.<digits>
\* returns an option with that number as temperature, whatever stands around
\* the token (one of the numbers when the line holds several tokens); on a line
\* without such a token it returns no option.
C22_ParseOption ==
    IsSome(option) =>
        /\ Tokens(pieces) = {} => Unwrap(option) = None
        /\ Tokens(pieces) # {} =>
              \E i \in Tokens(pieces) : Unwrap(option) = PieceTemperature(pieces[i])
        /\ line = "# system, temperature=2.0, top_p=0.95" =>
              Unwrap(option) = Some([mantissa |-> 2, scale |-> 0])

C22_Witness ==
    /\ line = "# system, temperature=2.0, top_p=0.95"
    /\ option = Some(Some([mantissa |-> 2, scale |-> 0]))

\* the tool-call fragments of the frames the reader has taken so far
FragmentsRead ==
    LET n == IF pos = Len(body) THEN pos - 1 ELSE pos
    IN  [i \in 1..n |-> Unwrap(JsonData[body[i]].tool_call)]

FirstOfIndex(fs, i) == \A j \in 1..(i - 1) : fs[j].index # fs[i].index

\* the stream is laid out as the provider lays it out: the first fragment of
\* an index carries its id and name and no later one does, and the indices
\* first appear in the order 0, 1, ...
WellFormedFragments(fs) ==
    \A i \in DOMAIN fs :
        /\ IsSome(fs[i].name) <=> FirstOfIndex(fs, i)
        /\ FirstOfIndex(fs, i) =>
              fs[i].index = Cardinality({fs[j].index : j \in 1..(i - 1)})

RECURSIVE ArgumentsOfIndex(_, _)
ArgumentsOfIndex(fs, k) ==
    IF fs = <<>> THEN ""
    ELSE (IF fs[1].index = k THEN fs[1].arguments ELSE "") \o ArgumentsOfIndex(Tail(fs), k)

\* the call the accumulator holds for an index: the Vec of lib/agent and
\* lib/openai by position, the HashMap of src/openai by key
HasAssembled(k) ==
    /\ IsSome(choice.tool_calls)
    /\ IF variant = "OpenAI" THEN k \in DOMAIN Unwrap(choice.tool_calls)
       ELSE k + 1 \in DOMAIN Unwrap(choice.tool_calls)

Assembled(k) ==
    IF variant = "OpenAI" THEN Unwrap(choice.tool_calls)[k]
    ELSE Unwrap(choice.tool_calls)[k + 1]

\* C23: on a stream laid out as the provider lays it out, the arguments of
\* the call assembled for an index are the fragments addressed to that index,
\* concatenated in arrival order, also when the fragments of two indices are
\* interleaved.
C23_ArgumentsConcatenated ==
    LET fs == FragmentsRead
    IN  WellFormedFragments(fs) =>
            /\ fs # <<>> => ssePc # "panicked"
            /\ \A i \in DOMAIN fs :
                  /\ HasAssembled(fs[i].index)
                  /\ Assembled(fs[i].index).arguments = ArgumentsOfIndex(fs, fs[i].index)

C23_Witness ==
    /\ variant \in {"AgentStream", "LibStream"}
    /\ Len(FragmentsRead) = 5
    /\ WellFormedFragments(FragmentsRead)
    /\ FragmentsRead[4].index = 1
    /\ ssePc = "returned"
    /\ Assembled(0).arguments = "{\"max\":5}"
    /\ Assembled(1).arguments = "{\"max\":5}"

\* the first fragment of every index carries its id and name, and no later one
NamesOnFirst(fs) ==
    \A i \in DOMAIN fs : IsSome(fs[i].name) <=> FirstOfIndex(fs, i)

\* C24: whatever the order in which the indices first appear, every fragment
\* finds or creates the call of its index and appends its arguments to it, and
\* the turn does not fail on a fragment.
C24_FindOrCreateByIndex ==
    LET fs == FragmentsRead
    IN  NamesOnFirst(fs) =>
            /\ fs # <<>> => ssePc # "panicked"
            /\ \A i \in DOMAIN fs :
                  /\ HasAssembled(fs[i].index)
                  /\ Assembled(fs[i].index).arguments = ArgumentsOfIndex(fs, fs[i].index)

\* the first fragment of every index carries its id and name, and the indices
\* first appear in the order 0, 1, ...
FirstCarriesName(fs) ==
    \A i \in DOMAIN fs :
        FirstOfIndex(fs, i) =>
            /\ IsSome(fs[i].name)
            /\ fs[i].index = Cardinality({fs[j].index : j \in 1..(i - 1)})

FirstFragment(fs, k) == fs[CHOOSE i \in DOMAIN fs : fs[i].index = k /\ FirstOfIndex(fs, i)]

NumberOfCalls ==
    IF ~IsSome(choice.tool_calls) THEN 0
    ELSE IF variant = "OpenAI" THEN Cardinality(DOMAIN Unwrap(choice.tool_calls))
    ELSE Len(Unwrap(choice.tool_calls))

\* C25: the id and name of a call are those of the first fragment of its index;
\* a later fragment of the index that carries a name again changes neither,
\* adds no call and leaves the arguments received so far in place.
C25_FirstWriteWins ==
    LET fs == FragmentsRead
    IN  (FirstCarriesName(fs) /\ ssePc # "panicked") =>
            /\ NumberOfCalls = Cardinality({fs[i].index : i \in DOMAIN fs})
            /\ \A i \in DOMAIN fs :
                  /\ HasAssembled(fs[i].index)
                  /\ Assembled(fs[i].index).name = Unwrap(FirstFragment(fs, fs[i].index).name)
                  /\ Assembled(fs[i].index).id = Unwrap(FirstFragment(fs, fs[i].index).id)
                  /\ Assembled(fs[i].index).arguments = ArgumentsOfIndex(fs, fs[i].index)

\* the Assistant messages of the log that record tool calls
RecordedCalls == {i \in DOMAIN messages : IsSome(messages[i].tool_calls)}

\* C26: the tool calls recorded in the Assistant message of a streamed turn
\* stand in ascending order of their index: the call of index 0 before the
\* call of index 1.
C26_RecordedByIndex ==
    LET fs == FragmentsRead
    IN  (NamesOnFirst(fs) /\ ssePc = "processed" /\ {fs[i].index : i \in DOMAIN fs} = {0, 1}) =>
            \A m \in RecordedCalls :
                LET calls == Unwrap(messages[m].tool_calls)
                IN  /\ Len(calls) = 2
                    /\ calls[1].id = Unwrap(FirstFragment(fs, 0).id)
                    /\ calls[2].id = Unwrap(FirstFragment(fs, 1).id)

----------------------------------------------------------------------------
(* Properties of the usage figures of a streamed turn *)

\* the usage figures a sequence of decoded frames ends with: those of the
\* last frame that carries usage
RECURSIVE LastUsage(_)
LastUsage(us) ==
    IF us = <<>> THEN NoUsage
    ELSE IF IsSome(Last(us)) THEN Unwrap(Last(us))
    ELSE LastUsage(SubSeq(us, 1, Len(us) - 1))

\* the usage fields of the frames the reader of lib/agent and lib/openai has taken
SseUsagesRead ==
    LET n == IF IsSome(doneRead) THEN Unwrap(doneRead) - 1 ELSE pos
    IN  [i \in 1..n |-> IF from_json_frame(body[i]).ok THEN FrameOf(body[i]).usage ELSE None]

\* the usage fields of the frames Vertex::process_response has taken
VertexUsagesRead == [i \in 1..Len(turns) |-> turns[i].usage_metadata]

EndEvents == SelectSeq(received, LAMBDA e : e.type = "End")

\* C27: the usage figures of a turn are those of the last frame of the turn
\* that carried usage: earlier values are overwritten, not added.  For the
\* readers of lib/agent and lib/openai the turn's figures are those of the
\* response read_sse_response returns; for Vertex they are those of
\* ChatEvent::End.
C27_UsageLastWriteWins ==
    /\ (variant \in {"AgentStream", "LibStream"} /\ ssePc = "returned")
          => choice.usage = LastUsage(SseUsagesRead)
    /\ (variant = "Vertex" /\ pc = "done")
          => /\ Len(EndEvents) = 1
             /\ EndEvents[1].usage = LastUsage(VertexUsagesRead)

----------------------------------------------------------------------------
(* Properties of the reader of the bracketed array *)

\* the bytes of a text: the accented character takes two
RECURSIVE Utf8Bytes(_)
Utf8Bytes(text) ==
    IF text = <<>> THEN <<>>
    ELSE (IF text[1] = AccentedChar THEN <<LeadByte, ContinuationByte>> ELSE <<text[1]>>)
         \o Utf8Bytes(Tail(text))

\* the complete documents that are a response, as bytes
ResponseBytes == {Utf8Bytes(t) : t \in {d \in DOMAIN VertexJson : VertexJson[d].ok}}

\* a step of the reader that takes a chunk of bytes from the body
ChunkRead ==
    /\ variant = "Vertex"
    /\ ssePc = "next"
    /\ pos' > pos
    /\ body[pos + 1] # IoError

\* C30: read_response_stream appends every chunk to its buffer and parses the
\* buffer without its first character; when that parse succeeds it emits one
\* frame and empties the buffer, when it fails it emits nothing and keeps the
\* buffer
C30_ParseAfterEveryChunk ==
    [][ChunkRead =>
        LET appended == Utf8Bytes(buffer) \o SubSeq(body, pos + 1, pos')
        IN  IF Tail(appended) \in ResponseBytes
            THEN /\ Len(outbox') = 1
                 /\ buffer' = <<>>
            ELSE /\ outbox' = <<>>
                 /\ Utf8Bytes(buffer') = appended]_vars

----------------------------------------------------------------------------
(* Properties of the SSE framing *)

\* the position of the first [DONE] of the body, or one past its end
FirstDone ==
    LET at == {i \in 1..Len(body) : body[i] = DoneData}
    IN  IF at = {} THEN Len(body) + 1 ELSE CHOOSE i \in at : \A j \in at : i <= j

\* the reader has taken segment i of the body with the blank line that ends it
SegmentTaken(i) ==
    IF variant = "Azure" THEN pos >= Len(Wire(SubSeq(body, 1, i))) ELSE pos >= i

\* the text of the segment begins with data:
HasDataPrefix(frame) == frame \notin {EventLine, IoError}

\* C28: under SSE framing a segment that is ended by a blank line and does
\* not start with data: aborts the turn with an error; it is not skipped.
C28_NonDataSegmentAborts ==
    \A i \in 1..Len(body) :
        (i < FirstDone /\ body[i] = EventLine /\ SegmentTaken(i)) => ssePc = "failed"

\* the payload of a segment that starts with data: : the text after the
\* prefix, without the one space that may lead it
PayloadOf(frame) == IF frame = NoSpaceData THEN "{content:a}" ELSE frame

\* the frames before the first [DONE]
Segments == SubSeq(body, 1, FirstDone - 1)

\* the content the payloads of the segments add up to
ExpectedContent ==
    LET payloads == [i \in 1..Len(Segments) |-> PayloadOf(Segments[i])]
    IN  IF \E i \in 1..Len(payloads) : IsContentFrame(payloads[i])
        THEN Some(FullText(payloads)) ELSE None

\* C29: the payload of a frame that starts with data: is all of its text
\* after the prefix, with one leading space removed when there is one: a
\* body whose segments all start with data: is read without an error, and
\* the content read from it is that of the payloads, "data:X" counting as X.
C29_PayloadAfterPrefix ==
    (Segments # <<>> /\ \A i \in 1..Len(Segments) : HasDataPrefix(Segments[i])) =>
        /\ ssePc # "failed"
        /\ ssePc = "returned" => choice.content = ExpectedContent

----------------------------------------------------------------------------
(* Properties of a turn whose stream fails *)

\* C31: when a frame of the stream is malformed JSON or the byte stream
\* reports an I/O error, the turn ends with an error and its response is
\* discarded: no message built from what was received before the failure is
\* appended to the log.
C31_FailedStreamIsDiscarded ==
    /\ (variant \in SseVariants /\ ssePc = "failed") => messages = start
    /\ (variant = "Vertex" /\ pc = "done" /\ failure = "failed")
          => /\ result.kind = "Err"
             /\ messages = start

----------------------------------------------------------------------------
(* Properties of the order of the statements of a tool-calling turn *)

Positions(e) == {k \in 1..Len(trace) : trace[k].e = e}

\* the request that opened the turn position k of the trace belongs to
TurnOf(k) == Cardinality({r \in Positions("Request") : r < k})

SameTurn(j, k) == TurnOf(j) = TurnOf(k)

\* the number of calls of the response of the turn under way
NumberOfStepCalls == Len(StepCalls)

\* C32: in every tool-calling turn the Assistant(tool_calls) record is
\* appended before any tool implementation of the turn is invoked, every
\* implementation has finished before the first Tool result is appended, and
\* all Tool results of the turn are appended before the next request is built.
C32_StepsInOrder ==
    /\ \A k \in Positions("Invoke") :
          \E j \in Positions("Record") : SameTurn(j, k) /\ j < k
    /\ \A k \in Positions("Result") :
          \A j \in Positions("Invoke") :
              SameTurn(j, k) =>
                 \E f \in Positions("Finish") :
                    SameTurn(f, k) /\ trace[f].arg = trace[j].arg /\ j < f /\ f < k
    /\ \A k \in Positions("Request") :
          \A j \in Positions("Invoke") :
              j < k => \E r \in Positions("Result") : trace[r].arg = trace[j].arg
                                                      /\ SameTurn(r, j) /\ r < k

\* a turn with two calls ran to its end and the next request was built
C32_Witness ==
    /\ Cardinality(Positions("Request")) = 2
    /\ Cardinality({k \in Positions("Result") : TurnOf(k) = 1}) = 2
    /\ Cardinality({k \in Positions("Invoke") : TurnOf(k) = 1}) = 2

----------------------------------------------------------------------------
(* Properties of a turn with text and tool calls *)

\* the same calls, in any order
SameCalls(a, b) ==
    /\ Len(a) = Len(b)
    /\ {a[i] : i \in 1..Len(a)} = {b[i] : i \in 1..Len(b)}

\* C33: when a turn ends with a pending tool call, the text accumulated in
\* the turn is not stored: no Assistant text message is appended for it, and
\* the message appended for the turn is an Assistant message with tool_calls
\* and no content.
C33_TextOfToolTurnDropped ==
    /\ \A i \in 1..Len(messages) : messages[i].content # Some(MixedText)
    /\ \A t \in 1..Len(turns) :
          IsToolTurn(turns[t]) =>
             \E i \in 1..Len(messages) :
                /\ messages[i].role = "Assistant"
                /\ IsSome(messages[i].tool_calls)
                /\ SameCalls(Unwrap(messages[i].tool_calls), Unwrap(turns[t].tool_calls))
                /\ messages[i].content = None

\* the names enabled for the session: Session.functions of lib/agent, the
\* store of lib/openai
Registry ==
    IF variant \in {"AgentGenerate", "AgentStream"}
    THEN IF IsSome(session_functions)
         THEN {Unwrap(session_functions)[i] : i \in 1..Len(Unwrap(session_functions))}
         ELSE {}
    ELSE implementations

\* C34: a request carries tool definitions exactly when the registry is not
\* empty, carries tool_choice "auto" exactly when it carries tool definitions,
\* and never carries an empty list of tools
C34_ToolsIffRegistry ==
    (variant \in ToolVariants /\ requests > 0) =>
        /\ IsSome(before.tools) <=> Registry # {}
        /\ tool_choice(before.tools) = Some("auto") <=> IsSome(before.tools)
        /\ before.tools # Some(<<>>)

\* message i of the log is an Assistant message with tool_calls that is
\* followed by exactly one Tool message for each call, in the order of the calls
Answered(log, i) ==
    LET calls == Unwrap(log[i].tool_calls)
        n == Len(calls)
    IN  /\ i + n <= Len(log)
        /\ \A k \in 1..n : /\ log[i + k].role = "Tool"
                           /\ log[i + k].tool_call_id = Some(calls[k].id)
        /\ i + n < Len(log) => log[i + n + 1].role # "Tool"

\* C35: in the log every request is built from, also by a generate() called
\* again after a failed one, each Assistant message with tool_calls is
\* followed at once by exactly one Tool message per call
C35_RequestLogAnswered ==
    (variant \in ToolVariants /\ requests > 0) =>
        \A i \in 1..Len(before.messages) :
            (before.messages[i].role = "Assistant" /\ IsSome(before.messages[i].tool_calls))
                => Answered(before.messages, i)

\* the revisions whose request is built from a log that outlives the request
LogVariants == ToolVariants \cup {"ChatGPT"}

\* the next list of messages is the previous one followed by one
\* Assistant(tool_calls) message and one Tool message for each of its calls
ExtendsByTurn(old, new) ==
    /\ Len(new) > Len(old)
    /\ SubSeq(new, 1, Len(old)) = old
    /\ new[Len(old) + 1].role = "Assistant"
    /\ IsSome(new[Len(old) + 1].tool_calls)
    /\ Answered(new, Len(old) + 1)
    /\ Len(new) = Len(old) + 1 + Len(Unwrap(new[Len(old) + 1].tool_calls))

\* a request of a call that already sent one is built
LaterRequest ==
    /\ variant \in LogVariants
    /\ requests >= 1
    /\ requests' = requests + 1

\* C36: within one call, the messages of each request after the first are
\* those of the request before, followed by the Assistant(tool_calls) message
\* and the Tool messages of the turn in between
C36_RequestsExtend ==
    [][LaterRequest => ExtendsByTurn(before.messages, before'.messages)]_vars

----------------------------------------------------------------------------
(* Properties of the chunking of the bracketed array *)

\* the elements of a body: the bytes between "[", "," and "]"
RECURSIVE SplitElements(_, _)
SplitElements(bytes, current) ==
    IF bytes = <<>>
    THEN IF current = <<>> THEN <<>> ELSE <<current>>
    ELSE IF bytes[1] \in {"[", ",", "]", IoError}
    THEN (IF current = <<>> THEN <<>> ELSE <<current>>) \o SplitElements(Tail(bytes), <<>>)
    ELSE SplitElements(Tail(bytes), Append(current, bytes[1]))

\* everything the reader has sent: what process_response took, what waits in
\* the channel and what waits to enter it
Emitted == turns \o channel \o outbox

\* C37: whatever the chunks of the body were, when the body has ended the
\* reader has emitted one frame for each element of the array, in order, and
\* no element is left in its buffer
C37_FramesIndependentOfChunks ==
    (variant = "Vertex" /\ ssePc = "returned") =>
        LET elements == SplitElements(body, <<>>)
        IN  /\ Len(Emitted) = Len(elements)
            /\ \A i \in 1..Len(elements) :
                   LET text == from_utf8(elements[i])
                   IN  /\ text.ok
                       /\ from_json_response(text.value).ok
                       /\ Emitted[i] = from_json_response(text.value).value
            /\ buffer \in {<<>>, <<"]">>}

----------------------------------------------------------------------------
(* Properties of a body that ends without [DONE] *)

EndVariants == {"AgentStream", "LibStream", "Azure"}

\* a body of frames that decode, with no [DONE] among them
NoDoneBody ==
    /\ body # <<>>
    /\ \A i \in 1..Len(body) : body[i] \in DOMAIN JsonData

\* a body of text deltas, at least one
TextFrames ==
    /\ \A i \in 1..Len(body) : IsTextFrame(body[i])
    /\ \E i \in 1..Len(body) : IsContentFrame(body[i])

\* the fragments of one call of the registered function with valid arguments
CompleteCall == <<"{call:0,call_1,get_random_number,}", "{call:0,,,{\"ma}", "{call:0,,,x\":5}}">>

\* the reader has taken the whole body and gone on
BodyEnded ==
    /\ pos = IF variant = "Azure" THEN Len(Wire(body)) ELSE Len(body)
    /\ ssePc # "next"

\* C38: when the body ends and no [DONE] was read, the reader returns what it
\* has accumulated as a normal response and the turn goes on as after [DONE]:
\* the text received is appended as the Assistant message, the tool calls
\* assembled are recorded and, in lib/agent and lib/openai, dispatched
C38_EndWithoutDone ==
    (variant \in EndVariants /\ NoDoneBody /\ BodyEnded) =>
        /\ doneRead = None
        /\ (TextFrames /\ ssePc = "processed") =>
              messages = Append(start, new_message("Assistant", FullText(body)))
        /\ (body = CompleteCall /\ ssePc = "processed") =>
              /\ Len(messages) >= Len(start) + 1
              /\ messages[Len(start) + 1] =
                    new_function_call(<<[id |-> "call_1", name |-> RegisteredName,
                                         arguments |-> ValidArguments]>>)
              /\ variant # "Azure" =>
                    /\ Len(messages) = Len(start) + 2
                    /\ messages[Len(start) + 2].role = "Tool"
                    /\ messages[Len(start) + 2].tool_call_id = Some("call_1")
        /\ (TextFrames \/ body = CompleteCall) => ssePc \in {"returned", "processed"}

C38_Witness ==
    /\ variant = "LibStream"
    /\ body = <<"{content:a}", "{content:b,finish:stop}">>
    /\ doneRead = None
    /\ ssePc = "processed"
    /\ Last(messages) = new_message("Assistant", "ab")

----------------------------------------------------------------------------
(* Properties of the lock around process_chat_response *)

CallerMessage == new_message("User", "And 3+3?")

IsRecord(m) == m.role = "Assistant" /\ IsSome(m.tool_calls)

\* C39: process_chat_response holds the lock of the session from before it
\* appends the Assistant(tool_calls) record until after it appends the last
\* Tool message of the turn: the record, the implementations and the results
\* run under the lock, and no message of a concurrent caller stands between a
\* record and its Tool messages
C39_LockAcrossTurn ==
    variant \in Locking =>
        /\ (Running /\ Current.op \in {"Parse", "Record", "Call", "Result", "Unlock"})
              => lock = "loop"
        /\ \A k \in 1..Len(messages) :
              messages[k].role = "Tool" =>
                 /\ k > 1
                 /\ IsRecord(messages[k - 1]) \/ messages[k - 1].role = "Tool"

\* a caller added its message during the loop, after a turn with two results
C39_Witness ==
    /\ variant \in Locking
    /\ \E k \in 1..Len(messages) :
          /\ k + 3 <= Len(messages)
          /\ IsRecord(messages[k])
          /\ messages[k + 1].role = "Tool"
          /\ messages[k + 2].role = "Tool"
          /\ messages[k + 3] = CallerMessage
    /\ \E k \in 1..Len(messages) :
          /\ k < Len(messages)
          /\ messages[k] = CallerMessage
          /\ IsRecord(messages[k + 1])

----------------------------------------------------------------------------
(* Properties of the tools of a Gemini session *)

\* the user messages of a log that carry an attachment
WithInlineData(log) == {i \in UserTextAt(log) : HasInlineData(log[i])}

\* C40: in the Gemini variant, once add_user_text has added a user message
\* with an attachment, no request of the session carries tool definitions, in
\* that turn or in a later turn whose user message has no attachment: nothing
\* brings the tools back
C40_ToolsStayDisabled ==
    variant = "Gemini" =>
        /\ WithInlineData(messages) # {} => tools = None
        /\ (requests > 0 /\ WithInlineData(before.messages) # {}) => before.tools = None

\* a request of a later turn: the first user message has an attachment, the
\* newest has none
C40_Witness ==
    /\ variant = "Gemini"
    /\ implementations # {}
    /\ pc = "receive"
    /\ before.tools = None
    /\ 1 \in WithInlineData(before.messages)
    /\ \E i \in UserTextAt(before.messages) :
          /\ i > 1
          /\ ~HasInlineData(before.messages[i])
          /\ \A j \in UserTextAt(before.messages) : j <= i

====
